---- MODULE Spec2Model ----
(***************************************************************************)
(* A model of the trading engine core (src/python/engine):                 *)
(*   - Position arithmetic (data_structures.Position),                     *)
(*   - the event bus (event_processor.EventProcessor),                     *)
(*   - the order manager, risk manager and position manager handlers.      *)
(*                                                                         *)
(* Python floats are modelled as exact rationals [n |-> num, d |-> den]    *)
(* in lowest terms with d > 0; all inputs are small integers, so the       *)
(* 1e-10 tolerance of the order manager coincides with equality.           *)
(***************************************************************************)
EXTENDS Integers, Sequences, FiniteSets, TLC

VARIABLES
    \* ---- Position under test (SpecPos) ----
    position,       \* the Position object
    posPre,         \* the Position as it was before the last operation
    posOp,          \* the last operation applied to it
    posOps,         \* number of operations applied so far
    \* ---- EventProcessor ----
    event_queue,            \* entries (priority, time.time(), event), kept in
                            \* the order of their time stamps; an entry with
                            \* waiting = TRUE is still suspended in put()
    dropped_events_count,
    sequence_counters,      \* source -> next expected sequence_id
    pending_events,         \* source -> (sequence_id -> buffered event)
    throttle_levels,        \* event type -> events per second
    throttle_counters,      \* _throttle_counters
    throttle_last_reset,    \* _throttle_last_reset
    now,                    \* time.time(), in ticks
    delivered,              \* the events handed to _process_event, in order
    lastPublish,            \* what the last call of publish did
    published,              \* number of publish calls made by producers
    \* ---- the engine: objects, OrderManager, PositionManager ----
    heap,                   \* the Order objects created so far; an Order is
                            \* referred to by its index (Python passes and
                            \* stores references, never copies)
    orders,                 \* OrderManager.orders: order_id -> Order (0: absent)
    active_orders,          \* OrderManager.active_orders
    order_history,          \* OrderManager.order_history
    trades,                 \* OrderManager.trades
    positions,              \* PositionManager.positions
    rules,                  \* RiskManager.rules: the rules in the order of the
                            \* dict, each with its name and enabled flag
    calls,                  \* number of calls made by the engine's clients
    lastOp,                 \* the last call or dispatch, and what it did
    \* ---- coroutines and tasks ----
    running,                \* EventProcessor.running
    loop,                   \* where the coroutine of event_loop is
    accepted,               \* the times at which publish let a throttled
                            \* event through
    te_running,             \* TradingEngine.running
    te_start,               \* where the coroutine of TradingEngine.start is
    te_stop,                \* where the coroutine of TradingEngine.stop is
    periodic_check_task,    \* RiskManager.periodic_check_task
    heartbeat_task          \* TradingEngine.heartbeat_task

posVars == <<position, posPre, posOp, posOps>>

busVars == <<event_queue, dropped_events_count, sequence_counters,
             pending_events, throttle_levels, throttle_counters,
             throttle_last_reset, now, delivered, lastPublish, published>>

omVars == <<heap, orders, active_orders, order_history, trades, positions,
            rules, calls>>

engVars == <<heap, orders, active_orders, order_history, trades, positions,
             rules, calls, lastOp>>

taskVars == <<running, loop, accepted, te_running, te_start, te_stop,
              periodic_check_task, heartbeat_task>>

vars == <<position, posPre, posOp, posOps,
          event_queue, dropped_events_count, sequence_counters,
          pending_events, throttle_levels, throttle_counters,
          throttle_last_reset, now, delivered, lastPublish, published,
          heap, orders, active_orders, order_history, trades, positions,
          rules, calls, lastOp,
          running, loop, accepted, te_running, te_start, te_stop,
          periodic_check_task, heartbeat_task>>

(***************************************************************************)
(* Bounds of the model                                                     *)
(***************************************************************************)
MaxPosOps == 3
QueueCap == 2           \* max_queue_size of the EventProcessor under test
MaxPublish == 4         \* publish calls made by producers
MaxSeq == 2             \* largest sequence_id a producer uses
MaxTime == 2            \* ticks the clock advances
ThrottleLimit == 2      \* the throttle level configured, when one is
TicksPerSecond == 2     \* clock ticks in the 1.0 s throttle window
MaxCalls == 4           \* calls made by the engine's clients and exchange

\* Inputs of the position arithmetic
TradeQtys == {5, 10, 15}
Prices == {100, 110, 120, 130}
Sides == {"BUY", "SELL"}

(***************************************************************************)
(* Exact arithmetic standing for Python's float arithmetic                 *)
(***************************************************************************)
Abs(x) == IF x < 0 THEN -x ELSE x

RECURSIVE GCD(_, _)
GCD(a, b) == IF b = 0 THEN a ELSE GCD(b, a % b)

\* n / d in lowest terms, d # 0
Rat(n, d) ==
    LET g == GCD(Abs(n), Abs(d))
        s == IF d < 0 THEN -1 ELSE 1
    IN  [n |-> (s * n) \div g, d |-> (s * d) \div g]

R(i) == [n |-> i, d |-> 1]
RAdd(a, b) == Rat(a.n * b.d + b.n * a.d, a.d * b.d)
RSub(a, b) == Rat(a.n * b.d - b.n * a.d, a.d * b.d)
RMul(a, b) == Rat(a.n * b.n, a.d * b.d)
RDiv(a, b) == Rat(a.n * b.d, a.d * b.n)
RAbs(a) == [n |-> Abs(a.n), d |-> a.d]
RLt(a, b) == a.n * b.d < b.n * a.d
RGt(a, b) == RLt(b, a)
RLe(a, b) == ~RLt(b, a)

None == "None"
\* None in an Optional[int] field (sequence_id) and in a time stamp not yet set
NoSeq == 0 - 1
NoTime == 0 - 1
\* None in an Optional[float] field (price, average_fill_price)
NoneF == [n |-> 0, d |-> 0]

(***************************************************************************)
(* data_structures.Position                                                *)
(***************************************************************************)
\* Position(instrument_id): the dataclass defaults
NewPosition ==
    [quantity |-> R(0), average_entry_price |-> R(0), current_price |-> None,
     realized_pnl |-> R(0), unrealized_pnl |-> R(0), position_value |-> R(0)]

\* A slip of lines 255-259: a flat position keeps the valuation it had
update_price_flat_stale(p, new_price) ==
    IF p.quantity = R(0)
    THEN [p EXCEPT !.current_price = new_price]
    ELSE [p EXCEPT
            !.current_price = new_price,
            !.position_value = RMul(p.quantity, new_price),
            !.unrealized_pnl =
                IF RGt(p.quantity, R(0))
                THEN RMul(p.quantity, RSub(new_price, p.average_entry_price))
                ELSE RMul(p.quantity, RSub(p.average_entry_price, new_price))]

\* A slip of line 263: the value is taken on the size of the position
update_price_unsigned_value(p, new_price) ==
    IF p.quantity = R(0)
    THEN [p EXCEPT !.unrealized_pnl = R(0), !.position_value = R(0),
                   !.current_price = new_price]
    ELSE [p EXCEPT
            !.current_price = new_price,
            !.position_value = RMul(RAbs(p.quantity), new_price),
            !.unrealized_pnl =
                IF RGt(p.quantity, R(0))
                THEN RMul(p.quantity, RSub(new_price, p.average_entry_price))
                ELSE RMul(p.quantity, RSub(p.average_entry_price, new_price))]

\* A slip of lines 260-269: the mark books the P&L and rebases the position
update_price_realizing(p, new_price) ==
    IF p.quantity = R(0)
    THEN [p EXCEPT !.unrealized_pnl = R(0), !.position_value = R(0),
                   !.current_price = new_price]
    ELSE [p EXCEPT
            !.current_price = new_price,
            !.position_value = RMul(p.quantity, new_price),
            !.realized_pnl =
                RAdd(@, RMul(p.quantity,
                             RSub(new_price, p.average_entry_price))),
            !.average_entry_price = new_price,
            !.unrealized_pnl = R(0)]

\* Position.update_price(new_price)
update_price(p, new_price) ==
    IF p.quantity = R(0)
    THEN [p EXCEPT !.unrealized_pnl = R(0), !.position_value = R(0),
                   !.current_price = new_price]
    ELSE [p EXCEPT
            !.current_price = new_price,
            !.position_value = RMul(p.quantity, new_price),
            !.unrealized_pnl =
                IF RGt(p.quantity, R(0))
                THEN RMul(p.quantity, RSub(new_price, p.average_entry_price))
                ELSE RMul(p.quantity, RSub(p.average_entry_price, new_price))]

\* A slip of lines 277-280: the side is not looked at
signed_quantity_unsigned(side, qty) == qty

\* signed trade quantity (lines 277-280)
signed_quantity(side, qty) == IF side = "BUY" THEN qty ELSE RSub(R(0), qty)

RMin(a, b) == IF RLt(b, a) THEN b ELSE a

\* A slip of lines 298-301: the long branch realizes with the short formula
realized_on_flip_long_as_short(p, price) ==
    RAdd(p.realized_pnl,
         RMul(RAbs(p.quantity), RSub(p.average_entry_price, price)))

\* realized P&L of a flip (lines 296-301): the entire old position is realized
realized_on_flip(p, price) ==
    IF RGt(p.quantity, R(0))
    THEN RAdd(p.realized_pnl,
              RMul(p.quantity, RSub(price, p.average_entry_price)))
    ELSE RAdd(p.realized_pnl,
              RMul(RAbs(p.quantity), RSub(p.average_entry_price, price)))

\* A slip of lines 315-316: an increase takes the trade price as the new
\* average entry price, the old cost basis is left out
apply_trade_last_price(p, side, qty, price) ==
    LET old_quantity == p.quantity
        old_cost_basis == IF old_quantity # R(0)
                          THEN RMul(RAbs(old_quantity), p.average_entry_price)
                          ELSE R(0)
        trade_quantity == signed_quantity(side, qty)
        new_quantity == RAdd(old_quantity, trade_quantity)
        opposite == \/ (RGt(old_quantity, R(0)) /\ RLt(trade_quantity, R(0)))
                    \/ (RLt(old_quantity, R(0)) /\ RGt(trade_quantity, R(0)))
        flips == opposite /\ RGt(RAbs(trade_quantity), RAbs(old_quantity))
        closing_quantity == RMin(RAbs(trade_quantity), RAbs(old_quantity))
        \* realized P&L after lines 286-301
        realized ==
            IF ~opposite THEN p.realized_pnl
            ELSE IF ~flips
                 THEN IF RGt(old_quantity, R(0))
                      THEN RAdd(p.realized_pnl,
                                RMul(closing_quantity, RSub(price, p.average_entry_price)))
                      ELSE RAdd(p.realized_pnl,
                                RMul(closing_quantity, RSub(p.average_entry_price, price)))
                 ELSE realized_on_flip(p, price)
        p1 == [p EXCEPT !.realized_pnl = realized]
    IN  IF flips
        THEN \* lines 303-309
             LET magnitude == RSub(RAbs(trade_quantity), RAbs(old_quantity))
                 new_position_quantity ==
                     IF RGt(trade_quantity, R(0)) THEN magnitude
                     ELSE RSub(R(0), magnitude)
             IN  update_price([p1 EXCEPT !.average_entry_price = price,
                                         !.quantity = new_position_quantity],
                              price)
        ELSE \* lines 311-322
             LET avg ==
                    IF new_quantity # R(0)
                    THEN IF \/ old_quantity = R(0)
                            \/ (RGt(old_quantity, R(0)) /\ RGt(new_quantity, R(0)))
                            \/ (RLt(old_quantity, R(0)) /\ RLt(new_quantity, R(0)))
                         THEN price
                         ELSE p1.average_entry_price
                    ELSE R(0)
             IN  update_price([p1 EXCEPT !.average_entry_price = avg,
                                         !.quantity = new_quantity],
                              price)

\* A slip of lines 317-319: the position closed exactly keeps its average
apply_trade_close_keeps_average(p, side, qty, price) ==
    LET old_quantity == p.quantity
        old_cost_basis == IF old_quantity # R(0)
                          THEN RMul(RAbs(old_quantity), p.average_entry_price)
                          ELSE R(0)
        trade_quantity == signed_quantity(side, qty)
        new_quantity == RAdd(old_quantity, trade_quantity)
        opposite == \/ (RGt(old_quantity, R(0)) /\ RLt(trade_quantity, R(0)))
                    \/ (RLt(old_quantity, R(0)) /\ RGt(trade_quantity, R(0)))
        flips == opposite /\ RGt(RAbs(trade_quantity), RAbs(old_quantity))
        closing_quantity == RMin(RAbs(trade_quantity), RAbs(old_quantity))
        \* realized P&L after lines 286-301
        realized ==
            IF ~opposite THEN p.realized_pnl
            ELSE IF ~flips
                 THEN IF RGt(old_quantity, R(0))
                      THEN RAdd(p.realized_pnl,
                                RMul(closing_quantity, RSub(price, p.average_entry_price)))
                      ELSE RAdd(p.realized_pnl,
                                RMul(closing_quantity, RSub(p.average_entry_price, price)))
                 ELSE realized_on_flip(p, price)
        p1 == [p EXCEPT !.realized_pnl = realized]
    IN  IF flips
        THEN \* lines 303-309
             LET magnitude == RSub(RAbs(trade_quantity), RAbs(old_quantity))
                 new_position_quantity ==
                     IF RGt(trade_quantity, R(0)) THEN magnitude
                     ELSE RSub(R(0), magnitude)
             IN  update_price([p1 EXCEPT !.average_entry_price = price,
                                         !.quantity = new_position_quantity],
                              price)
        ELSE \* lines 311-322
             LET avg ==
                    IF new_quantity # R(0)
                    THEN IF \/ old_quantity = R(0)
                            \/ (RGt(old_quantity, R(0)) /\ RGt(new_quantity, R(0)))
                            \/ (RLt(old_quantity, R(0)) /\ RLt(new_quantity, R(0)))
                         THEN RDiv(RAdd(old_cost_basis,
                                        RMul(RAbs(trade_quantity), price)),
                                   RAbs(new_quantity))
                         ELSE p1.average_entry_price
                    ELSE p1.average_entry_price
             IN  update_price([p1 EXCEPT !.average_entry_price = avg,
                                         !.quantity = new_quantity],
                              price)

\* Position.apply_trade(trade) with trade = (side, qty, price)
apply_trade(p, side, qty, price) ==
    LET old_quantity == p.quantity
        old_cost_basis == IF old_quantity # R(0)
                          THEN RMul(RAbs(old_quantity), p.average_entry_price)
                          ELSE R(0)
        trade_quantity == signed_quantity(side, qty)
        new_quantity == RAdd(old_quantity, trade_quantity)
        opposite == \/ (RGt(old_quantity, R(0)) /\ RLt(trade_quantity, R(0)))
                    \/ (RLt(old_quantity, R(0)) /\ RGt(trade_quantity, R(0)))
        flips == opposite /\ RGt(RAbs(trade_quantity), RAbs(old_quantity))
        closing_quantity == RMin(RAbs(trade_quantity), RAbs(old_quantity))
        \* realized P&L after lines 286-301
        realized ==
            IF ~opposite THEN p.realized_pnl
            ELSE IF ~flips
                 THEN IF RGt(old_quantity, R(0))
                      THEN RAdd(p.realized_pnl,
                                RMul(closing_quantity, RSub(price, p.average_entry_price)))
                      ELSE RAdd(p.realized_pnl,
                                RMul(closing_quantity, RSub(p.average_entry_price, price)))
                 ELSE realized_on_flip(p, price)
        p1 == [p EXCEPT !.realized_pnl = realized]
    IN  IF flips
        THEN \* lines 303-309
             LET magnitude == RSub(RAbs(trade_quantity), RAbs(old_quantity))
                 new_position_quantity ==
                     IF RGt(trade_quantity, R(0)) THEN magnitude
                     ELSE RSub(R(0), magnitude)
             IN  update_price([p1 EXCEPT !.average_entry_price = price,
                                         !.quantity = new_position_quantity],
                              price)
        ELSE \* lines 311-322
             LET avg ==
                    IF new_quantity # R(0)
                    THEN IF \/ old_quantity = R(0)
                            \/ (RGt(old_quantity, R(0)) /\ RGt(new_quantity, R(0)))
                            \/ (RLt(old_quantity, R(0)) /\ RLt(new_quantity, R(0)))
                         THEN RDiv(RAdd(old_cost_basis,
                                        RMul(RAbs(trade_quantity), price)),
                                   RAbs(new_quantity))
                         ELSE p1.average_entry_price
                    ELSE R(0)
             IN  update_price([p1 EXCEPT !.average_entry_price = avg,
                                         !.quantity = new_quantity],
                              price)

(***************************************************************************)
(* event_processor.EventProcessor                                          *)
(***************************************************************************)
BusEventTypes == {"MARKET_DATA", "SYSTEM_EVENT"}
BusSources == {"S", "T"}

\* Event(event_type, data, source, sequence_id, priority)
Event(type, data, source, seq, prio) ==
    [event_type |-> type, data |-> data, source |-> source,
     sequence_id |-> seq, priority |-> prio]

\* the events the producers of the bus under test publish: sequenced or
\* unsequenced market data (priority 1, the default) and heartbeats (priority 3)
BusEvents ==
    {Event("MARKET_DATA", None, s, q, 1) :
        s \in BusSources, q \in (0..MaxSeq) \cup {NoSeq}}
    \cup {Event("SYSTEM_EVENT", None, "trading_engine", NoSeq, 3)}

EmptyMap == << >>

\* asyncio.PriorityQueue: qsize(), full()
qsize(q) == Cardinality({i \in 1..Len(q) : ~q[i].waiting})
full(q, cap) == qsize(q) >= cap

\* the entries of q ordered before entry i by the heap: (priority, time stamp)
Before(q, i) ==
    {j \in 1..Len(q) : /\ ~q[j].waiting
                       /\ \/ q[j].priority < q[i].priority
                          \/ (q[j].priority = q[i].priority /\ j < i)}

\* A slip of the heap order: the largest priority value comes out first
HeapMax(q) ==
    IF qsize(q) = 0 THEN 0
    ELSE CHOOSE i \in 1..Len(q) :
            /\ ~q[i].waiting
            /\ \A j \in 1..Len(q) :
                  (~q[j].waiting /\ j # i) =>
                     \/ q[j].priority < q[i].priority
                     \/ (q[j].priority = q[i].priority /\ i < j)

\* the heap's smallest entry: event_queue.get() returns it. 0 when empty.
HeapMin(q) ==
    IF qsize(q) = 0 THEN 0
    ELSE CHOOSE i \in 1..Len(q) : ~q[i].waiting /\ Before(q, i) = {}

RemoveAt(q, i) == SubSeq(q, 1, i - 1) \o SubSeq(q, i + 1, Len(q))

\* A slip of line 75: the limit itself is still let through
ThrottleCheck_inclusive(e, levels, counters, last_reset, t) ==
    IF e.event_type \notin DOMAIN levels
    THEN [pass |-> TRUE, counters |-> counters, last_reset |-> last_reset]
    ELSE LET ty == e.event_type
             \* defaultdict(time.time): the first access stores the time
             last0 == IF last_reset[ty] = NoTime THEN t ELSE last_reset[ty]
             expired == t - last0 >= TicksPerSecond
             cnt1 == IF expired THEN 0 ELSE counters[ty]
             last1 == IF expired THEN t ELSE last0
         IN  IF cnt1 > levels[ty]
             THEN [pass |-> FALSE,
                   counters |-> [counters EXCEPT ![ty] = cnt1],
                   last_reset |-> [last_reset EXCEPT ![ty] = last1]]
             ELSE [pass |-> TRUE,
                   counters |-> [counters EXCEPT ![ty] = cnt1 + 1],
                   last_reset |-> [last_reset EXCEPT ![ty] = last1]]

\* the throttle check of publish (lines 64-79): the counters after the call
\* and whether the event is let through
ThrottleCheck(e, levels, counters, last_reset, t) ==
    IF e.event_type \notin DOMAIN levels
    THEN [pass |-> TRUE, counters |-> counters, last_reset |-> last_reset]
    ELSE LET ty == e.event_type
             \* defaultdict(time.time): the first access stores the time
             last0 == IF last_reset[ty] = NoTime THEN t ELSE last_reset[ty]
             expired == t - last0 >= TicksPerSecond
             cnt1 == IF expired THEN 0 ELSE counters[ty]
             last1 == IF expired THEN t ELSE last0
         IN  IF cnt1 >= levels[ty]
             THEN [pass |-> FALSE,
                   counters |-> [counters EXCEPT ![ty] = cnt1],
                   last_reset |-> [last_reset EXCEPT ![ty] = last1]]
             ELSE [pass |-> TRUE,
                   counters |-> [counters EXCEPT ![ty] = cnt1 + 1],
                   last_reset |-> [last_reset EXCEPT ![ty] = last1]]

\* await self.event_queue.put((event.priority, time.time(), event)) (line 83):
\* asyncio's put() appends when the queue has room and otherwise suspends the
\* caller until it has; it never raises QueueFull
QueuePut(q, e, cap) ==
    Append(q, [priority |-> e.priority, event |-> e, waiting |-> full(q, cap)])

\* EventProcessor.publish(event): the state of the bus after the call and what
\* the caller sees: "True", "False", or "suspended" (still inside put())
publish(e, q, cap, dropped, levels, counters, last_reset, t) ==
    LET th == ThrottleCheck(e, levels, counters, last_reset, t)
    IN  IF ~th.pass
        THEN [queue |-> q, dropped |-> dropped + 1,
              counters |-> th.counters, last_reset |-> th.last_reset,
              result |-> "False"]
        ELSE [queue |-> QueuePut(q, e, cap), dropped |-> dropped,
              counters |-> th.counters, last_reset |-> th.last_reset,
              result |-> IF full(q, cap) THEN "suspended" ELSE "True"]

\* the buffered successors next, next+1, ... of a source (lines 135-140)
RECURSIVE ContiguousFrom(_, _)
ContiguousFrom(pend, next) ==
    IF next \in DOMAIN pend
    THEN <<pend[next]>> \o ContiguousFrom(pend, next + 1)
    ELSE << >>

\* A slip of lines 147-150: the event that is too old is processed
handle_sequenced_event_stale_delivered(e, counters, pending) ==
    IF e.sequence_id = NoSeq
    THEN [counters |-> counters, pending |-> pending, processed |-> << >>,
          should_process |-> TRUE]
    ELSE LET source == e.source
             expected_seq == counters[source]
         IN  IF e.sequence_id = expected_seq
             THEN LET drained == ContiguousFrom(pending[source], expected_seq + 1)
                      popped == {expected_seq + k : k \in 1..Len(drained)}
                  IN  [counters |-> [counters EXCEPT
                                        ![source] = expected_seq + 1 + Len(drained)],
                       pending |-> [pending EXCEPT ![source] =
                                      [k \in DOMAIN pending[source] \ popped |->
                                          pending[source][k]]],
                       processed |-> drained,
                       should_process |-> TRUE]
             ELSE IF e.sequence_id > expected_seq
             THEN [counters |-> counters,
                   pending |-> [pending EXCEPT ![source] =
                                  (e.sequence_id :> e) @@ pending[source]],
                   processed |-> << >>,
                   should_process |-> FALSE]
             ELSE [counters |-> counters, pending |-> pending,
                   processed |-> << >>, should_process |-> TRUE]

\* EventProcessor._handle_sequenced_event(event): the sequence state after the
\* call, the buffered events it handed to _process_event, and its result
handle_sequenced_event(e, counters, pending) ==
    IF e.sequence_id = NoSeq
    THEN [counters |-> counters, pending |-> pending, processed |-> << >>,
          should_process |-> TRUE]
    ELSE LET source == e.source
             expected_seq == counters[source]
         IN  IF e.sequence_id = expected_seq
             THEN LET drained == ContiguousFrom(pending[source], expected_seq + 1)
                      popped == {expected_seq + k : k \in 1..Len(drained)}
                  IN  [counters |-> [counters EXCEPT
                                        ![source] = expected_seq + 1 + Len(drained)],
                       pending |-> [pending EXCEPT ![source] =
                                      [k \in DOMAIN pending[source] \ popped |->
                                          pending[source][k]]],
                       processed |-> drained,
                       should_process |-> TRUE]
             ELSE IF e.sequence_id > expected_seq
             THEN [counters |-> counters,
                   pending |-> [pending EXCEPT ![source] =
                                  (e.sequence_id :> e) @@ pending[source]],
                   processed |-> << >>,
                   should_process |-> FALSE]
             ELSE [counters |-> counters, pending |-> pending,
                   processed |-> << >>, should_process |-> FALSE]

\* EventProcessor.__init__
BusConstructed ==
    /\ event_queue = << >>
    /\ dropped_events_count = 0
    /\ sequence_counters = [s \in BusSources \cup {"trading_engine"} |-> 0]
    /\ pending_events = [s \in BusSources \cup {"trading_engine"} |-> EmptyMap]
    /\ throttle_counters = [ty \in BusEventTypes |-> 0]
    /\ throttle_last_reset = [ty \in BusEventTypes |-> NoTime]
    /\ now = 0
    /\ delivered = << >>
    /\ lastPublish = [result |-> "none"]
    /\ published = 0

(***************************************************************************)
(* SpecBus: the EventProcessor with producers publishing onto it and the   *)
(* dispatch loop running.  A producer may run between any two rounds of    *)
(* the loop (handlers are coroutines and may yield).                       *)
(***************************************************************************)
\* a producer calls publish(e)
BusPublish ==
    /\ published < MaxPublish
    /\ \E e \in BusEvents :
          LET r == publish(e, event_queue, QueueCap, dropped_events_count,
                           throttle_levels, throttle_counters,
                           throttle_last_reset, now)
          IN  /\ event_queue' = r.queue
              /\ dropped_events_count' = r.dropped
              /\ throttle_counters' = r.counters
              /\ throttle_last_reset' = r.last_reset
              /\ lastPublish' = [result |-> r.result, event |-> e,
                                 at_capacity |-> full(event_queue, QueueCap),
                                 queue_before |-> event_queue,
                                 queue_after |-> r.queue,
                                 dropped_before |-> dropped_events_count,
                                 dropped_after |-> r.dropped]
    /\ published' = published + 1
    /\ UNCHANGED <<sequence_counters, pending_events, throttle_levels, now,
                   delivered>>

\* a caller suspended in put() is resumed once the queue has room (asyncio
\* wakes the putters; one that finds the queue full again waits again)
BusResumePut ==
    /\ ~full(event_queue, QueueCap)
    /\ \E i \in 1..Len(event_queue) :
          /\ event_queue[i].waiting
          /\ event_queue' = [event_queue EXCEPT ![i].waiting = FALSE]
    /\ UNCHANGED <<dropped_events_count, sequence_counters, pending_events,
                   throttle_levels, throttle_counters, throttle_last_reset,
                   now, delivered, lastPublish, published>>

\* one round of EventProcessor.event_loop (lines 156-167): get the heap's
\* smallest entry, _handle_sequenced_event, _process_event
BusDispatch ==
    /\ qsize(event_queue) > 0
    /\ LET i == HeapMin(event_queue)
           e == event_queue[i].event
           h == handle_sequenced_event(e, sequence_counters, pending_events)
       IN  /\ event_queue' = RemoveAt(event_queue, i)
           /\ sequence_counters' = h.counters
           /\ pending_events' = h.pending
           /\ delivered' = delivered \o h.processed \o
                              (IF h.should_process THEN <<e>> ELSE << >>)
    /\ UNCHANGED <<dropped_events_count, throttle_levels, throttle_counters,
                   throttle_last_reset, now, lastPublish, published>>

\* time passes (it is read by the throttle only)
BusTick ==
    /\ now < MaxTime
    /\ throttle_levels # EmptyMap
    /\ now' = now + 1
    /\ UNCHANGED <<event_queue, dropped_events_count, sequence_counters,
                   pending_events, throttle_levels, throttle_counters,
                   throttle_last_reset, delivered, lastPublish, published>>

(***************************************************************************)
(* data_structures.Order, order_manager.OrderManager,                      *)
(* position_manager.PositionManager, risk_manager.RiskManager              *)
(*                                                                         *)
(* Handlers and operations are operators on the engine state               *)
(*   st = [heap, orders, active_orders, order_history, trades, positions,  *)
(*         bus, reject, invoked, blocked]                                  *)
(* and return the state after the call.                                    *)
(***************************************************************************)
OrderIds == {"o1", "o2"}
Instruments == {"X"}
OrderQtys == {2, 4}
FillQtys == {2, 4}
FillPrices == {100}
ModifyQtys == {1, 4}
ModifyPrices == {101}

\* event_queue_size default of the engine (TradingEngine.__init__)
EngineQueueSize == 100000
\* risk_limits: {"position_limits": {"X": 5}}
PositionLimitX == 5

TerminalStatuses == {"FILLED", "CANCELLED", "REJECTED", "EXPIRED"}
ActiveStatuses == {"PENDING_NEW", "NEW", "PARTIALLY_FILLED"}

\* Order(...) as a client constructs it (dataclass defaults otherwise)
NewOrder(id, instr, side, qty, price) ==
    [order_id |-> id, instrument_id |-> instr, side |-> side,
     quantity |-> qty, price |-> price, status |-> "PENDING_NEW",
     filled_quantity |-> R(0), average_fill_price |-> NoneF]

\* Order.is_active
is_active(o) == o.status \in ActiveStatuses

\* Order.from_dict(order.to_dict()): the fields are written under their names
\* and read back under the same names
to_dict(o) ==
    [order_id |-> o.order_id, instrument_id |-> o.instrument_id,
     side |-> o.side, quantity |-> o.quantity, price |-> o.price,
     status |-> o.status, filled_quantity |-> o.filled_quantity,
     average_fill_price |-> o.average_fill_price]
from_dict(d) ==
    [order_id |-> d.order_id, instrument_id |-> d.instrument_id,
     side |-> d.side, quantity |-> d.quantity, price |-> d.price,
     status |-> d.status, filled_quantity |-> d.filled_quantity,
     average_fill_price |-> d.average_fill_price]

\* await self.event_processor.publish(event) from a component of the engine.
\* A call that finds the queue full stays suspended in put(): blocked is set
\* and what the coroutine would do after the call is not done (the calls
\* that follow a publish in a handler are publish calls or the handlers
\* after it)
eng_publish(st, e) ==
    IF st.blocked THEN st
    ELSE LET r == publish(e, st.bus.queue, st.bus.cap, st.bus.dropped,
                          st.bus.levels, st.bus.counters, st.bus.last_reset,
                          st.bus.now)
         IN  [st EXCEPT !.bus.queue = r.queue, !.bus.dropped = r.dropped,
                        !.bus.counters = r.counters,
                        !.bus.last_reset = r.last_reset,
                        !.blocked = (r.result = "suspended")]

\* A slip of _save_order_history: the list keeps one entry per status, the
\* last entry is replaced when the status has not changed
save_order_history_replacing(st, o) ==
    LET id == st.heap[o].order_id
        h == st.order_history[id]
        copy == from_dict(to_dict(st.heap[o]))
    IN  [st EXCEPT !.order_history[id] =
            IF h # << >> /\ h[Len(h)].status = copy.status
            THEN [h EXCEPT ![Len(h)] = copy]
            ELSE Append(h, copy)]

\* OrderManager._save_order_history(order): order is a reference
save_order_history(st, o) ==
    LET id == st.heap[o].order_id
    IN  [st EXCEPT !.order_history[id] =
                      Append(@, from_dict(to_dict(st.heap[o])))]

\* A slip of _update_order_state: an order leaves the active set only when
\* its status is terminal
update_order_state_until_terminal(st, o) ==
    LET id == st.heap[o].order_id
    IN  save_order_history(
            [st EXCEPT !.orders[id] = o,
                       !.active_orders =
                           IF st.heap[o].status \notin TerminalStatuses
                           THEN @ \cup {id}
                           ELSE @ \ {id}],
            o)

\* OrderManager._update_order_state(order)
update_order_state(st, o) ==
    LET id == st.heap[o].order_id
    IN  save_order_history(
            [st EXCEPT !.orders[id] = o,
                       !.active_orders = IF is_active(st.heap[o])
                                         THEN @ \cup {id}
                                         ELSE @ \ {id}],
            o)

\* OrderManager._handle_order_update(event); no callback is registered
om_handle_order_update(st, e) == update_order_state(st, e.data)

\* A slip of _handle_trade_update: the new average is the mean of the old
\* average and the trade price, the quantities are not weighed in
om_handle_trade_update_unweighted(st, e) ==
    LET trade == e.data
        id == trade.order_id
        st1 == [st EXCEPT !.trades[id] = Append(@, trade)]
    IN  IF st.orders[id] = 0 THEN st1
        ELSE LET o == st.orders[id]
                 order == st.heap[o]
                 filled == RAdd(order.filled_quantity, trade.quantity)
                 avg == IF order.average_fill_price = NoneF
                        THEN trade.price
                        ELSE RDiv(RAdd(order.average_fill_price, trade.price),
                                  R(2))
                 complete == filled = order.quantity
                 status == IF complete THEN "FILLED"
                           ELSE IF RGt(filled, R(0)) THEN "PARTIALLY_FILLED"
                           ELSE order.status
                 st2 == [st1 EXCEPT
                            !.heap[o].filled_quantity = filled,
                            !.heap[o].average_fill_price = avg,
                            !.heap[o].status = status,
                            !.active_orders = IF complete THEN @ \ {id} ELSE @]
             IN  eng_publish(save_order_history(st2, o),
                             Event("ORDER_UPDATE", o, "order_manager", NoSeq, 1))

\* OrderManager._handle_trade_update(event)
om_handle_trade_update(st, e) ==
    LET trade == e.data
        id == trade.order_id
        st1 == [st EXCEPT !.trades[id] = Append(@, trade)]
    IN  IF st.orders[id] = 0 THEN st1
        ELSE LET o == st.orders[id]
                 order == st.heap[o]
                 filled == RAdd(order.filled_quantity, trade.quantity)
                 avg == IF order.average_fill_price = NoneF
                        THEN trade.price
                        ELSE LET prev_fill_qty == RSub(filled, trade.quantity)
                             IN  RDiv(RAdd(RMul(order.average_fill_price,
                                                prev_fill_qty),
                                           RMul(trade.price, trade.quantity)),
                                      filled)
                 \* abs(filled - quantity) < 1e-10 on integer quantities
                 complete == filled = order.quantity
                 status == IF complete THEN "FILLED"
                           ELSE IF RGt(filled, R(0)) THEN "PARTIALLY_FILLED"
                           ELSE order.status
                 st2 == [st1 EXCEPT
                            !.heap[o].filled_quantity = filled,
                            !.heap[o].average_fill_price = avg,
                            !.heap[o].status = status,
                            !.active_orders = IF complete THEN @ \ {id} ELSE @]
             IN  eng_publish(save_order_history(st2, o),
                             Event("ORDER_UPDATE", o, "order_manager", NoSeq, 1))

\* PositionManager.get_position(instrument_id): creates the position if absent
get_position(st, instr) ==
    IF instr \in DOMAIN st.positions THEN st
    ELSE [st EXCEPT !.positions = (instr :> NewPosition) @@ @]

\* PositionManager._handle_trade_update(event)
pm_handle_trade_update(st, e) ==
    LET trade == e.data
        instr == trade.instrument_id
        st1 == get_position(st, instr)
        st2 == [st1 EXCEPT !.positions[instr] =
                   apply_trade(@, trade.side, trade.quantity, trade.price)]
    IN  eng_publish(st2,
                    Event("POSITION_UPDATE", instr, "position_manager", NoSeq, 1))

\* the price _handle_market_data reads from a MarketData object: the mid of
\* a quote, the price of a trade, the mid of the top of an order book, the
\* close of a bar; NoneF when the data has no such price
market_price(md) ==
    IF md.data_type = "QUOTE"
    THEN IF "bid" \in DOMAIN md.data /\ "ask" \in DOMAIN md.data
         THEN RDiv(RAdd(md.data.bid, md.data.ask), R(2))
         ELSE NoneF
    ELSE IF md.data_type = "TRADE"
    THEN IF "price" \in DOMAIN md.data THEN md.data.price ELSE NoneF
    ELSE IF md.data_type = "ORDERBOOK"
    THEN IF "bids" \in DOMAIN md.data /\ "asks" \in DOMAIN md.data
         THEN IF md.data.bids # << >> /\ md.data.asks # << >>
              THEN RDiv(RAdd(md.data.bids[1].price, md.data.asks[1].price),
                        R(2))
              ELSE NoneF
         ELSE NoneF
    ELSE IF md.data_type = "BAR"
    THEN IF "close" \in DOMAIN md.data THEN md.data.close ELSE NoneF
    ELSE NoneF

RMax(a, b) == IF RLt(a, b) THEN b ELSE a

\* A slip of the significance test: only the absolute change counts
significant_pnl_change_absolute(old_pnl, new_pnl) ==
    RGt(RAbs(RSub(new_pnl, old_pnl)), Rat(1, 100))

\* the test of _handle_market_data on the change of unrealized_pnl
significant_pnl_change(old_pnl, new_pnl) ==
    LET pnl_change == RAbs(RSub(new_pnl, old_pnl))
    IN  \/ RGt(pnl_change, Rat(1, 100))
        \/ RGt(RDiv(pnl_change, RMax(RAbs(old_pnl), Rat(1, 100))),
               Rat(1, 1000))

\* PositionManager._handle_market_data(event)
pm_handle_market_data(st, e) ==
    LET market_data == e.data
        instr == market_data.instrument_id
        price == market_price(market_data)
    IN  IF price = NoneF \/ instr \notin DOMAIN st.positions THEN st
        ELSE LET old_pnl == st.positions[instr].unrealized_pnl
                 st1 == [st EXCEPT !.positions[instr] = update_price(@, price)]
             IN  IF significant_pnl_change(old_pnl,
                                           st1.positions[instr].unrealized_pnl)
                 THEN eng_publish(st1,
                          Event("POSITION_UPDATE", instr, "position_manager",
                                NoSeq, 1))
                 ELSE st1

\* context.get('order') when the context holds no order
NoOrder == [order_id |-> None, instrument_id |-> None, side |-> None,
            quantity |-> R(0)]

\* A slip of lines 54-57: the order is added to the size of the position,
\* whatever its side
PositionLimitRule_check_unsigned(rule, pos, order) ==
    IF order # NoOrder /\ order.instrument_id # rule.instrument_id THEN TRUE
    ELSE LET current_position == RAbs(pos.quantity)
         IN  IF order # NoOrder
             THEN ~RGt(RAdd(current_position, order.quantity),
                       rule.max_position)
             ELSE ~RGt(current_position, rule.max_position)

\* PositionLimitRule.check(risk_manager, context): passed or not; pos is the
\* position get_position returns for the rule's instrument and order is
\* context.get('order')
PositionLimitRule_check(rule, pos, order) ==
    IF order # NoOrder /\ order.instrument_id # rule.instrument_id THEN TRUE
    ELSE LET current_position == RAbs(pos.quantity)
         IN  IF order # NoOrder
             THEN LET new_position ==
                          IF order.side = "BUY"
                          THEN RAbs(RAdd(pos.quantity, order.quantity))
                          ELSE RAbs(RSub(pos.quantity, order.quantity))
                  IN  ~RGt(new_position, rule.max_position)
             ELSE ~RGt(current_position, rule.max_position)

\* the check of the rule configured on instrument X for an order (the
\* position it reads is there: see rm_handle_order_update)
position_limit_passes(pos, order) ==
    PositionLimitRule_check([instrument_id |-> "X",
                             max_position |-> R(PositionLimitX)],
                            pos,
                            [order_id |-> order.order_id,
                             instrument_id |-> order.instrument_id,
                             side |-> order.side,
                             quantity |-> order.quantity])

\* what rule.check does on a call: it returns passed, returns not passed, or
\* raises
Outcomes == {"passed", "failed", "raises"}

\* A slip of lines 271-274: the exception of a rule ends the loop
RECURSIVE check_rules_stops_at_raise(_, _)
check_rules_stops_at_raise(rs, outcome) ==
    IF rs = << >>
    THEN [all_passed |-> TRUE, messages |-> << >>, checked |-> << >>]
    ELSE LET rule == Head(rs)
         IN  IF ~rule.enabled THEN check_rules_stops_at_raise(Tail(rs), outcome)
             ELSE IF outcome[rule.name] = "raises"
             THEN [all_passed |-> FALSE, messages |-> <<rule.name>>,
                   checked |-> <<rule.name>>]
             ELSE LET rest == check_rules_stops_at_raise(Tail(rs), outcome)
                      ok == outcome[rule.name] = "passed"
                  IN  [all_passed |-> ok /\ rest.all_passed,
                       messages |-> (IF ok THEN << >> ELSE <<rule.name>>)
                                       \o rest.messages,
                       checked |-> <<rule.name>> \o rest.checked]

\* RiskManager.check_rules(context) over the rules rs, outcome[name] being
\* what the check of rule name does in this context: (all_passed, messages),
\* each message standing for the rule it names, and the rules whose check
\* was called, in order
RECURSIVE check_rules(_, _)
check_rules(rs, outcome) ==
    IF rs = << >>
    THEN [all_passed |-> TRUE, messages |-> << >>, checked |-> << >>]
    ELSE LET rule == Head(rs)
             rest == check_rules(Tail(rs), outcome)
             ok == outcome[rule.name] = "passed"
         IN  IF ~rule.enabled THEN rest
             ELSE [all_passed |-> ok /\ rest.all_passed,
                   messages |-> (IF ok THEN << >> ELSE <<rule.name>>)
                                   \o rest.messages,
                   checked |-> <<rule.name>> \o rest.checked]

\* RiskManager._handle_order_update(event) with the one configured rule
rm_handle_order_update(st, e) ==
    LET o == e.data
        order == st.heap[o]
    IN  IF order.status # "PENDING_NEW" THEN st
        ELSE IF order.instrument_id # "X" THEN st
        ELSE LET st1 == get_position(st, "X")
             IN  IF position_limit_passes(st1.positions["X"], order) THEN st1
                 ELSE LET st2 == [st1 EXCEPT !.heap[o].status = "REJECTED",
                                             !.reject = o]
                          st3 == eng_publish(st2,
                                   Event("ORDER_UPDATE", o, "risk_manager",
                                         NoSeq, 1))
                      IN  eng_publish(st3,
                                   Event("RISK_CHECK",
                                         [passed |-> FALSE,
                                          order_id |-> order.order_id],
                                         "risk_manager", NoSeq, 1))

\* the add_handler calls made while TradingEngine.__init__ builds the order
\* manager, the position manager and the risk manager and then registers its
\* own handlers, in the order they are made
Registrations ==
    <<[event_type |-> "ORDER_UPDATE",
       handler |-> "OrderManager._handle_order_update"],
      [event_type |-> "TRADE_UPDATE",
       handler |-> "OrderManager._handle_trade_update"],
      [event_type |-> "TRADE_UPDATE",
       handler |-> "PositionManager._handle_trade_update"],
      [event_type |-> "MARKET_DATA",
       handler |-> "PositionManager._handle_market_data"],
      [event_type |-> "ORDER_UPDATE",
       handler |-> "RiskManager._handle_order_update"],
      [event_type |-> "POSITION_UPDATE",
       handler |-> "RiskManager._handle_position_update"],
      [event_type |-> "SYSTEM_EVENT",
       handler |-> "TradingEngine._handle_system_event"],
      [event_type |-> "ORDER_UPDATE",
       handler |-> "TradingEngine._handle_order_update"],
      [event_type |-> "TRADE_UPDATE",
       handler |-> "TradingEngine._handle_trade_update"]>>

\* self.handlers[event_type]: add_handler appends
RECURSIVE handlers_of(_, _)
handlers_of(regs, ty) ==
    IF regs = << >> THEN << >>
    ELSE (IF Head(regs).event_type = ty THEN <<Head(regs).handler>> ELSE << >>)
            \o handlers_of(Tail(regs), ty)

\* await handler(event): the state when the handler has returned.  The
\* engine's own handlers only count events and the risk manager's handler
\* of POSITION_UPDATE does nothing.
call_handler(h, st, e) ==
    IF h = "OrderManager._handle_order_update"
    THEN om_handle_order_update(st, e)
    ELSE IF h = "OrderManager._handle_trade_update"
    THEN om_handle_trade_update(st, e)
    ELSE IF h = "PositionManager._handle_trade_update"
    THEN pm_handle_trade_update(st, e)
    ELSE IF h = "PositionManager._handle_market_data"
    THEN pm_handle_market_data(st, e)
    ELSE IF h = "RiskManager._handle_order_update"
    THEN rm_handle_order_update(st, e)
    ELSE st

\* A slip of the loop over the handlers: the last registered runs first
RECURSIVE run_handlers_reversed(_, _, _)
run_handlers_reversed(hs, st, e) ==
    IF hs = << >> \/ st.blocked THEN st
    ELSE LET h == hs[Len(hs)]
             st1 == call_handler(h, st, e)
         IN  run_handlers_reversed(SubSeq(hs, 1, Len(hs) - 1),
                 IF st1.blocked THEN st1
                           ELSE [st1 EXCEPT !.invoked = Append(@, h)], e)

\* for handler in self.handlers[event.event_type]: await handler(event)
\* (the handlers of the engine do not raise); each call is noted in invoked
\* when it has returned, and a handler that stays suspended in put() keeps
\* the loop from going on
RECURSIVE run_handlers(_, _, _)
run_handlers(hs, st, e) ==
    IF hs = << >> \/ st.blocked THEN st
    ELSE LET h == Head(hs)
             st1 == call_handler(h, st, e)
         IN  run_handlers(Tail(hs), IF st1.blocked THEN st1
                           ELSE [st1 EXCEPT !.invoked = Append(@, h)], e)

\* EventProcessor._process_event(event) with the handlers TradingEngine.__init__
\* registers
process_event(st, e) ==
    run_handlers(handlers_of(Registrations, e.event_type), st, e)

\* OrderManager.submit_order(order), order being object o of the heap
submit_order(st, o) ==
    LET st1 == [st EXCEPT !.heap[o].status = "PENDING_NEW"]
    IN  eng_publish(update_order_state(st1, o),
                    Event("ORDER_UPDATE", o, "order_manager", NoSeq, 1))

\* A slip of cancel_order: the status of the order is not looked at, every
\* order of the active set is cancelled
cancel_order_any_status(st, id) ==
    IF st.orders[id] = 0 \/ id \notin st.active_orders
    THEN [st |-> st, result |-> FALSE]
    ELSE LET o == st.orders[id]
             st1 == [st EXCEPT !.heap[o].status = "PENDING_CANCEL"]
         IN  [st |-> eng_publish(save_order_history(st1, o),
                         Event("ORDER_UPDATE", o, "order_manager", NoSeq, 1)),
              result |-> TRUE]

\* A slip of cancel_order: the snapshot is taken before the status is set
cancel_order_early_snapshot(st, id) ==
    IF st.orders[id] = 0 \/ id \notin st.active_orders
    THEN [st |-> st, result |-> FALSE]
    ELSE LET o == st.orders[id]
         IN  IF st.heap[o].status \notin {"NEW", "PARTIALLY_FILLED"}
             THEN [st |-> st, result |-> FALSE]
             ELSE LET st1 == save_order_history(st, o)
                      st2 == [st1 EXCEPT !.heap[o].status = "PENDING_CANCEL"]
                  IN  [st |-> eng_publish(st2,
                                  Event("ORDER_UPDATE", o, "order_manager",
                                        NoSeq, 1)),
                       result |-> TRUE]

\* OrderManager.cancel_order(order_id): the state after, and the result
cancel_order(st, id) ==
    IF st.orders[id] = 0 \/ id \notin st.active_orders
    THEN [st |-> st, result |-> FALSE]
    ELSE LET o == st.orders[id]
         IN  IF st.heap[o].status \notin {"NEW", "PARTIALLY_FILLED"}
             THEN [st |-> st, result |-> FALSE]
             ELSE LET st1 == [st EXCEPT !.heap[o].status = "PENDING_CANCEL"]
                  IN  [st |-> eng_publish(save_order_history(st1, o),
                                  Event("ORDER_UPDATE", o, "order_manager",
                                        NoSeq, 1)),
                       result |-> TRUE]

\* OrderManager.batch_cancel_orders(order_ids): the state after the calls of
\* cancel_order, the mapping returned (results[order_id] is assigned for each
\* element of the list in turn), and the ids for which a call of
\* cancel_order issued a cancel request
RECURSIVE batch_cancel_orders(_, _, _, _)
batch_cancel_orders(st, order_ids, results, issued) ==
    IF order_ids = << >>
    THEN [st |-> st, results |-> results, issued |-> issued]
    ELSE LET order_id == Head(order_ids)
             r == cancel_order(st, order_id)
         IN  batch_cancel_orders(r.st, Tail(order_ids),
                 (order_id :> r.result) @@ results,
                 IF r.result THEN issued \cup {order_id} ELSE issued)

\* OrderManager.modify_order(order_id, price, quantity); NoneF: not given
modify_order(st, id, price, quantity) ==
    IF st.orders[id] = 0 \/ id \notin st.active_orders
    THEN [st |-> st, result |-> FALSE]
    ELSE LET o == st.orders[id]
             order == st.heap[o]
         IN  IF order.status \notin {"NEW", "PARTIALLY_FILLED"}
             THEN [st |-> st, result |-> FALSE]
             ELSE IF /\ quantity # NoneF
                     /\ order.status = "PARTIALLY_FILLED"
                     /\ RLt(quantity, order.filled_quantity)
             THEN [st |-> st, result |-> FALSE]
             ELSE LET copy == from_dict(to_dict(order))
                      modified_order ==
                          [copy EXCEPT
                             !.price = IF price # NoneF THEN price ELSE @,
                             !.quantity = IF quantity # NoneF THEN quantity ELSE @]
                      m == Len(st.heap) + 1
                      st1 == [st EXCEPT !.heap = Append(@, modified_order)]
                  IN  [st |-> eng_publish(update_order_state(st1, m),
                                  Event("ORDER_UPDATE", m, "order_manager",
                                        NoSeq, 1)),
                       result |-> TRUE]

\* nothing has been started: EventProcessor.__init__ sets running = False,
\* RiskManager.__init__ sets periodic_check_task = None, and
\* TradingEngine.__init__ sets running = False and no heartbeat_task
TasksConstructed ==
    /\ running = FALSE
    /\ loop = "not_started"
    /\ accepted = << >>
    /\ te_running = FALSE
    /\ te_start = "not_called"
    /\ te_stop = "not_called"
    /\ periodic_check_task = "None"
    /\ heartbeat_task = "None"

\* OrderManager(), PositionManager(), RiskManager() as TradingEngine.__init__
\* builds them
EngConstructed ==
    /\ heap = << >>
    /\ orders = [id \in OrderIds |-> 0]
    /\ active_orders = {}
    /\ order_history = [id \in OrderIds |-> << >>]
    /\ trades = [id \in OrderIds |-> << >>]
    /\ positions = EmptyMap
    /\ rules = <<[name |-> "Position limit for X", enabled |-> TRUE]>>
    /\ calls = 0
    /\ lastOp = [kind |-> "none"]

(***************************************************************************)
(* SpecPos: a Position driven by trades and marks                          *)
(***************************************************************************)
NoOp == [kind |-> "none", side |-> None, qty |-> R(0), price |-> R(0)]

\* Position(instrument_id)
PosConstructed ==
    /\ position = NewPosition
    /\ posPre = NewPosition
    /\ posOp = NoOp
    /\ posOps = 0

PosInit ==
    /\ PosConstructed
    /\ BusConstructed
    /\ throttle_levels = EmptyMap
    /\ EngConstructed
    /\ TasksConstructed

\* Position.apply_trade called with a trade
PosApplyTrade ==
    /\ posOps < MaxPosOps
    /\ \E side \in Sides, q \in TradeQtys, px \in Prices :
          /\ position' = apply_trade(position, side, R(q), R(px))
          /\ posOp' = [kind |-> "trade", side |-> side, qty |-> R(q), price |-> R(px)]
    /\ posPre' = position
    /\ posOps' = posOps + 1
    /\ UNCHANGED <<busVars, engVars, taskVars>>

\* Position.update_price called with a price
PosUpdatePrice ==
    /\ posOps < MaxPosOps
    /\ \E px \in Prices :
          /\ position' = update_price(position, R(px))
          /\ posOp' = [kind |-> "mark", side |-> None, qty |-> R(0), price |-> R(px)]
    /\ posPre' = position
    /\ posOps' = posOps + 1
    /\ UNCHANGED <<busVars, engVars, taskVars>>

PosNext == PosApplyTrade \/ PosUpdatePrice

SpecPos == PosInit /\ [][PosNext]_vars

\* SpecBus: throttle_levels is empty after construction; a test may set a
\* level for MARKET_DATA
BusInit ==
    /\ PosConstructed
    /\ BusConstructed
    /\ EngConstructed
    /\ TasksConstructed
    /\ throttle_levels \in {EmptyMap, [ty \in {"MARKET_DATA"} |-> ThrottleLimit]}

BusNext ==
    \/ (BusPublish /\ UNCHANGED <<posVars, engVars, taskVars>>)
    \/ (BusResumePut /\ UNCHANGED <<posVars, engVars, taskVars>>)
    \/ (BusDispatch /\ UNCHANGED <<posVars, engVars, taskVars>>)
    \/ (BusTick /\ UNCHANGED <<posVars, engVars, taskVars>>)

SpecBus == BusInit /\ [][BusNext]_vars

(***************************************************************************)
(* Spec: the engine.  Clients submit, cancel and modify orders; the         *)
(* exchange side publishes fills and status reports; the event loop         *)
(* dispatches one event at a time to the handlers.                          *)
(***************************************************************************)
\* the engine state as the record the operators above work on
EngState ==
    [heap |-> heap, orders |-> orders, active_orders |-> active_orders,
     order_history |-> order_history, trades |-> trades,
     positions |-> positions,
     bus |-> [queue |-> event_queue, dropped |-> dropped_events_count,
              levels |-> throttle_levels, counters |-> throttle_counters,
              last_reset |-> throttle_last_reset, now |-> now,
              cap |-> EngineQueueSize],
     reject |-> 0, invoked |-> << >>, blocked |-> FALSE]

\* the variables take the values of state st
EngSet(st) ==
    /\ heap' = st.heap
    /\ orders' = st.orders
    /\ active_orders' = st.active_orders
    /\ order_history' = st.order_history
    /\ trades' = st.trades
    /\ positions' = st.positions
    /\ event_queue' = st.bus.queue
    /\ dropped_events_count' = st.bus.dropped
    /\ throttle_counters' = st.bus.counters
    /\ throttle_last_reset' = st.bus.last_reset
    /\ UNCHANGED <<throttle_levels, now, sequence_counters, pending_events,
                   delivered, lastPublish, published, rules, posVars,
                   taskVars>>

Init ==
    /\ PosConstructed
    /\ BusConstructed
    /\ throttle_levels = EmptyMap
    /\ EngConstructed
    /\ TasksConstructed

\* a client builds an Order and calls submit_order; the order_id is a fresh
\* uuid4, here the first id not yet in use
SubmitOrder ==
    /\ calls < MaxCalls
    /\ \E id \in OrderIds, instr \in Instruments, side \in Sides,
          qty \in OrderQtys :
          /\ orders[id] = 0
          /\ id = "o1" \/ orders["o1"] # 0
          /\ LET o == Len(heap) + 1
                 st == [EngState EXCEPT !.heap =
                           Append(@, NewOrder(id, instr, side, R(qty), R(100)))]
             IN  /\ EngSet(submit_order(st, o))
                 /\ lastOp' = [kind |-> "submit", order_id |-> id, ref |-> o,
                               result |-> TRUE]
    /\ calls' = calls + 1

\* a client calls cancel_order and the call is accepted (a refused call
\* returns False and leaves the state as it is)
CancelOrder ==
    /\ calls < MaxCalls
    /\ \E id \in OrderIds :
          LET r == cancel_order(EngState, id)
          IN  /\ r.result
              /\ EngSet(r.st)
              /\ lastOp' = [kind |-> "cancel", order_id |-> id,
                            ref |-> orders[id], result |-> r.result,
                            before |-> heap[orders[id]]]
    /\ calls' = calls + 1

\* a client calls modify_order and the call is accepted (a refused call
\* returns False and leaves the state as it is)
ModifyOrder ==
    /\ calls < MaxCalls
    /\ \E id \in OrderIds,
          price \in {NoneF} \cup {R(x) : x \in ModifyPrices},
          quantity \in {NoneF} \cup {R(x) : x \in ModifyQtys} :
          LET r == modify_order(EngState, id, price, quantity)
          IN  /\ r.result
              /\ EngSet(r.st)
              /\ lastOp' = [kind |-> "modify", order_id |-> id,
                            ref |-> orders[id], result |-> r.result,
                            price |-> price, quantity |-> quantity,
                            before |-> heap[orders[id]]]
    /\ calls' = calls + 1

\* the exchange side reports a fill of a known order: a TRADE_UPDATE event
\* carrying a Trade is published
PublishTrade ==
    /\ calls < MaxCalls
    /\ \E id \in OrderIds, qty \in FillQtys, px \in FillPrices :
          /\ orders[id] # 0
          /\ LET order == heap[orders[id]]
                 trade == [order_id |-> id,
                           instrument_id |-> order.instrument_id,
                           side |-> order.side, quantity |-> R(qty),
                           price |-> R(px)]
             IN  /\ EngSet(eng_publish(EngState,
                        Event("TRADE_UPDATE", trade, "exchange", NoSeq, 1)))
                 /\ lastOp' = [kind |-> "trade", order_id |-> id,
                               ref |-> orders[id], result |-> TRUE]
    /\ calls' = calls + 1

\* what the exchange side reports about an order in a given status
ExchangeReport(status) ==
    IF status = "PENDING_NEW" THEN "NEW"
    ELSE IF status = "PENDING_CANCEL" THEN "CANCELLED"
    ELSE status

\* the exchange side acknowledges a pending order or confirms a pending
\* cancel: an ORDER_UPDATE event carrying a new Order record is published
PublishOrderUpdate ==
    /\ calls < MaxCalls
    /\ \E id \in OrderIds :
          /\ orders[id] # 0
          /\ heap[orders[id]].status \in {"PENDING_NEW", "PENDING_CANCEL"}
          /\ LET order == heap[orders[id]]
                 o == Len(heap) + 1
                 st == [EngState EXCEPT !.heap =
                           Append(@, [order EXCEPT !.status =
                                         ExchangeReport(order.status)])]
             IN  /\ EngSet(eng_publish(st,
                        Event("ORDER_UPDATE", o, "exchange", NoSeq, 1)))
                 /\ lastOp' = [kind |-> "report", order_id |-> id, ref |-> o,
                               result |-> TRUE]
    /\ calls' = calls + 1

\* one round of EventProcessor.event_loop: get() the least entry and hand it
\* to the handlers
Dispatch ==
    /\ event_queue # << >>
    /\ LET i == HeapMin(event_queue)
           e == event_queue[i].event
           st == [EngState EXCEPT !.bus.queue = RemoveAt(event_queue, i)]
           after == process_event(st, e)
       IN  /\ EngSet(after)
           /\ lastOp' = [kind |-> "dispatch", event |-> e,
                         reject |-> after.reject,
                         invoked |-> after.invoked]
    /\ UNCHANGED calls

Next ==
    \/ SubmitOrder
    \/ CancelOrder
    \/ ModifyOrder
    \/ PublishTrade
    \/ PublishOrderUpdate
    \/ Dispatch

Spec == Init /\ [][Next]_vars

(***************************************************************************)
(* SpecThrottle: an EventProcessor with a throttle level for MARKET_DATA;  *)
(* producers publish market data while time passes and the loop            *)
(* dispatches.                                                             *)
(***************************************************************************)
ThrottledEvent == Event("MARKET_DATA", None, "S", NoSeq, 1)

ThrInit ==
    /\ PosConstructed
    /\ BusConstructed
    /\ EngConstructed
    /\ TasksConstructed
    /\ throttle_levels = [ty \in {"MARKET_DATA"} |-> ThrottleLimit]

\* a producer calls publish with a MARKET_DATA event; the time of the call is
\* noted when the throttle lets the event through
ThrPublish ==
    /\ published < MaxPublish
    /\ LET e == ThrottledEvent
           r == publish(e, event_queue, QueueCap, dropped_events_count,
                        throttle_levels, throttle_counters,
                        throttle_last_reset, now)
       IN  /\ event_queue' = r.queue
           /\ dropped_events_count' = r.dropped
           /\ throttle_counters' = r.counters
           /\ throttle_last_reset' = r.last_reset
           /\ lastPublish' = [result |-> r.result, event |-> e,
                              at_capacity |-> full(event_queue, QueueCap),
                              queue_before |-> event_queue,
                              queue_after |-> r.queue,
                              dropped_before |-> dropped_events_count,
                              dropped_after |-> r.dropped]
           /\ accepted' = IF r.result = "False" THEN accepted
                          ELSE Append(accepted, now)
    /\ published' = published + 1
    /\ UNCHANGED <<sequence_counters, pending_events, throttle_levels, now,
                   delivered, posVars, engVars, running, loop, te_running,
                   te_start, te_stop, periodic_check_task, heartbeat_task>>

ThrNext ==
    \/ ThrPublish
    \/ (BusResumePut /\ UNCHANGED <<posVars, engVars, taskVars>>)
    \/ (BusDispatch /\ UNCHANGED <<posVars, engVars, taskVars>>)
    \/ (BusTick /\ UNCHANGED <<posVars, engVars, taskVars>>)

SpecThrottle == ThrInit /\ [][ThrNext]_vars

(***************************************************************************)
(* SpecLoop: an EventProcessor that is started and stopped, with handlers  *)
(* that may raise.  Producers publish unsequenced market data (priority 1) *)
(* and heartbeats (priority 3).                                            *)
(***************************************************************************)
LoopEvents ==
    {Event("MARKET_DATA", None, s, NoSeq, 1) : s \in BusSources}
    \cup {Event("SYSTEM_EVENT", None, "trading_engine", NoSeq, 3)}

\* self.handlers: the handlers registered with add_handler, in that order
LoopHandlers ==
    [ty \in BusEventTypes |->
        IF ty = "MARKET_DATA" THEN <<"h1", "h2", "h3">> ELSE <<"hs">>]

\* A slip of _process_event: no try/except around the handler, the first
\* exception ends the loop over the handlers
RECURSIVE invoke_handlers_uncaught(_, _)
invoke_handlers_uncaught(hs, raising) ==
    IF hs = << >> THEN << >>
    ELSE IF Head(hs) \in raising
    THEN <<[handler |-> Head(hs), raised |-> TRUE]>>
    ELSE <<[handler |-> Head(hs), raised |-> FALSE]>>
            \o invoke_handlers_uncaught(Tail(hs), raising)

\* the loop over the handlers in _process_event (lines 105-109): each handler
\* is awaited inside try/except Exception; raising is the set of handlers
\* that raise on this event.  The calls made, in order.
RECURSIVE invoke_handlers(_, _)
invoke_handlers(hs, raising) ==
    IF hs = << >> THEN << >>
    ELSE <<[handler |-> Head(hs), raised |-> Head(hs) \in raising]>>
            \o invoke_handlers(Tail(hs), raising)

LoopInit ==
    /\ PosConstructed
    /\ BusConstructed
    /\ EngConstructed
    /\ TasksConstructed
    /\ throttle_levels = EmptyMap

\* what no action of the EventProcessor's coroutines touches
LoopRest == <<posVars, omVars, accepted, te_running, te_start, te_stop,
              periodic_check_task, heartbeat_task>>

\* EventProcessor.start(): running = True, then into event_loop
EPStart ==
    /\ loop = "not_started"
    /\ running' = TRUE
    /\ loop' = "head"
    /\ UNCHANGED <<busVars, lastOp, LoopRest>>

\* EventProcessor.stop(): running = False
EPStop ==
    /\ loop # "not_started"
    /\ running
    /\ running' = FALSE
    /\ UNCHANGED <<busVars, lastOp, loop, LoopRest>>

\* a producer calls publish(e)
LoopPublish ==
    /\ published < MaxPublish
    /\ \E e \in LoopEvents :
          LET r == publish(e, event_queue, QueueCap, dropped_events_count,
                           throttle_levels, throttle_counters,
                           throttle_last_reset, now)
          IN  /\ event_queue' = r.queue
              /\ dropped_events_count' = r.dropped
              /\ throttle_counters' = r.counters
              /\ throttle_last_reset' = r.last_reset
    /\ published' = published + 1
    /\ UNCHANGED <<sequence_counters, pending_events, throttle_levels, now,
                   delivered, lastPublish, lastOp, running, loop, LoopRest>>

\* the body of the while loop of event_loop (lines 157-167) for the entry
\* get() returns
LoopBody ==
    LET i == HeapMin(event_queue)
        e == event_queue[i].event
        h == handle_sequenced_event(e, sequence_counters, pending_events)
    IN  /\ event_queue' = RemoveAt(event_queue, i)
        /\ sequence_counters' = h.counters
        /\ pending_events' = h.pending
        /\ delivered' = delivered \o h.processed \o
                           (IF h.should_process THEN <<e>> ELSE << >>)
        /\ \E raising \in SUBSET {LoopHandlers[e.event_type][k] :
                                     k \in 1..Len(LoopHandlers[e.event_type])} :
              lastOp' = [kind |-> "dispatch", index |-> i,
                         queue_before |-> event_queue, event |-> e,
                         raising |-> raising,
                         invoked |-> invoke_handlers(
                                        LoopHandlers[e.event_type], raising),
                         after_raise |-> /\ lastOp.kind = "dispatch"
                                         /\ \/ lastOp.raising # {}
                                            \/ lastOp.after_raise]
        /\ UNCHANGED <<dropped_events_count, throttle_levels,
                       throttle_counters, throttle_last_reset, now,
                       lastPublish, published, running, LoopRest>>

\* while self.running: the flag is down, the loop ends
LoopExit ==
    /\ loop = "head"
    /\ ~running
    /\ loop' = "exited"
    /\ lastOp' = [kind |-> "exit"]
    /\ UNCHANGED <<busVars, running, LoopRest>>

\* the flag is up and the queue has an entry: get() returns it at once
LoopDispatch ==
    /\ loop = "head"
    /\ running
    /\ qsize(event_queue) > 0
    /\ LoopBody
    /\ UNCHANGED loop

\* the flag is up and the queue is empty: the coroutine waits in get()
LoopPark ==
    /\ loop = "head"
    /\ running
    /\ qsize(event_queue) = 0
    /\ loop' = "in_get"
    /\ lastOp' = [kind |-> "wait"]
    /\ UNCHANGED <<busVars, running, LoopRest>>

\* an entry arrives while the coroutine waits in get(): it is dispatched,
\* whatever the flag is by then, and the loop is back at its head
LoopWake ==
    /\ loop = "in_get"
    /\ qsize(event_queue) > 0
    /\ LoopBody
    /\ loop' = "head"

LoopSteps == LoopExit \/ LoopDispatch \/ LoopPark \/ LoopWake

LoopNext ==
    \/ EPStart
    \/ EPStop
    \/ LoopPublish
    \/ (BusResumePut /\ UNCHANGED <<posVars, engVars, taskVars>>)
    \/ LoopExit
    \/ LoopDispatch
    \/ LoopPark
    \/ LoopWake

SpecLoop == LoopInit /\ [][LoopNext]_vars

\* the event loop is a coroutine of a running asyncio loop: it takes its
\* next step when it can; producers publish when they like
SpecLoopFair == LoopInit /\ [][LoopNext]_vars /\ WF_vars(LoopSteps)

(***************************************************************************)
(* SpecLife: TradingEngine.start() and TradingEngine.stop(), the event     *)
(* loop and the two periodic tasks on one asyncio loop.  A coroutine runs  *)
(* until it awaits something that is not ready; each action below is one   *)
(* such run.                                                               *)
(***************************************************************************)
\* the bus as one of the coroutines below leaves it after publishing e
\* (publish as in LoopPublish, the queue of the engine's size)
LifePublished(e) ==
    LET r == publish(e, event_queue, QueueCap, dropped_events_count,
                     throttle_levels, throttle_counters, throttle_last_reset,
                     now)
    IN  /\ event_queue' = r.queue
        /\ dropped_events_count' = r.dropped
        /\ throttle_counters' = r.counters
        /\ throttle_last_reset' = r.last_reset
        /\ UNCHANGED <<sequence_counters, pending_events, throttle_levels,
                       now, delivered, lastPublish, published>>

SystemEvent(prio) == Event("SYSTEM_EVENT", None, "trading_engine", NoSeq, prio)

\* TradingEngine.start() up to its first suspension: running = True, then
\* await self.event_processor.start(), which sets the processor's flag and
\* runs event_loop inside this coroutine (lines 141-150)
TEStart ==
    /\ te_start = "not_called"
    /\ ~te_running
    /\ te_running' = TRUE
    /\ running' = TRUE
    /\ loop' = "head"
    /\ te_start' = "in_event_loop"
    /\ lastOp' = [kind |-> "start"]
    /\ UNCHANGED <<busVars, posVars, omVars, accepted, te_stop,
                   periodic_check_task, heartbeat_task>>

\* event_loop has returned: start() goes on (lines 152-170) to
\* start_periodic_checks(), to create the heartbeat task and to publish the
\* startup event
TEStartResume ==
    /\ te_start = "in_event_loop"
    /\ loop = "exited"
    /\ periodic_check_task' = "running"
    /\ heartbeat_task' = "running"
    /\ LifePublished(SystemEvent(1))
    /\ te_start' = "done"
    /\ lastOp' = [kind |-> "start_resumed"]
    /\ UNCHANGED <<posVars, omVars, accepted, running, loop, te_running,
                   te_stop>>

\* TradingEngine.stop() (lines 176-210): the flag, cancel and await the
\* heartbeat task if the attribute exists, stop_periodic_checks(), publish
\* the shutdown event, event_processor.stop()
TEStop ==
    /\ te_stop = "not_called"
    /\ te_running
    /\ te_running' = FALSE
    /\ heartbeat_task' = IF heartbeat_task = "None" THEN "None" ELSE "done"
    /\ periodic_check_task' = "None"
    /\ LifePublished(SystemEvent(1))
    /\ running' = FALSE
    /\ te_stop' = "done"
    /\ lastOp' = [kind |-> "stop"]
    /\ UNCHANGED <<posVars, omVars, accepted, loop, te_start>>

\* one round of _heartbeat_loop (lines 215-219): while self.running, publish
\* a heartbeat and sleep; the task ends when the flag is down
HeartbeatRound ==
    /\ heartbeat_task = "running"
    /\ te_running => ~full(event_queue, QueueCap)
    /\ IF te_running
       THEN /\ LifePublished(SystemEvent(3))
            /\ UNCHANGED heartbeat_task
            /\ lastOp' = [kind |-> "heartbeat"]
       ELSE /\ heartbeat_task' = "done"
            /\ lastOp' = [kind |-> "heartbeat_end"]
            /\ UNCHANGED busVars
    /\ UNCHANGED <<posVars, omVars, accepted, running, loop, te_running,
                   te_start, te_stop, periodic_check_task>>

\* one round of _periodic_check_loop (risk_manager.py:294-298): while True,
\* _perform_periodic_check() and sleep; the position limit rule reads the
\* position of X through get_position, passes on it (nothing is traded here)
\* and the check publishes nothing
PeriodicRound ==
    /\ periodic_check_task = "running"
    /\ positions' = get_position(EngState, "X").positions
    /\ lastOp' = [kind |-> "periodic_check"]
    /\ UNCHANGED <<busVars, posVars, heap, orders, active_orders,
                   order_history, trades, rules, calls, taskVars>>

LifeNext ==
    \/ TEStart
    \/ TEStartResume
    \/ TEStop
    \/ HeartbeatRound
    \/ PeriodicRound
    \/ LoopPublish
    \/ (BusResumePut /\ UNCHANGED <<posVars, engVars, taskVars>>)
    \/ LoopExit
    \/ LoopDispatch
    \/ LoopPark
    \/ LoopWake

SpecLife == LoopInit /\ [][LifeNext]_vars

(***************************************************************************)
(* SpecCalls: the engine, with the calls of cancel_order and modify_order  *)
(* that are refused as steps of their own.                                 *)
(***************************************************************************)
\* ids a client may pass: those of the orders, and one no order has
CallIds == OrderIds \cup {"unknown"}

\* the engine state with an entry for the id no order has (dict.get on a
\* missing key: nothing stored, no history, no trades)
CallState ==
    [EngState EXCEPT
        !.orders = [id \in CallIds |-> IF id \in OrderIds THEN orders[id] ELSE 0],
        !.order_history = [id \in CallIds |->
                              IF id \in OrderIds THEN order_history[id] ELSE << >>],
        !.trades = [id \in CallIds |->
                       IF id \in OrderIds THEN trades[id] ELSE << >>]]

\* a client calls cancel_order and the call is refused
RefusedCancel ==
    /\ calls < MaxCalls
    /\ lastOp.kind # "refused"
    /\ \E id \in CallIds :
          LET r == cancel_order(CallState, id)
          IN  /\ ~r.result
              /\ lastOp' = [kind |-> "refused", op |-> "cancel",
                            order_id |-> id, result |-> r.result,
                            unchanged |-> r.st = CallState]
    /\ UNCHANGED <<busVars, posVars, omVars, taskVars>>

\* the arguments of the calls of modify_order: a new price, or a new quantity
ModifyArgs ==
    {<<R(x), NoneF>> : x \in ModifyPrices}
    \cup {<<NoneF, R(x)>> : x \in ModifyQtys}

\* a client calls modify_order and the call is refused
RefusedModify ==
    /\ calls < MaxCalls
    /\ lastOp.kind # "refused"
    /\ \E id \in CallIds, args \in ModifyArgs :
          LET price == args[1]
              quantity == args[2]
              r == modify_order(CallState, id, price, quantity)
          IN  /\ ~r.result
              /\ lastOp' = [kind |-> "refused", op |-> "modify",
                            order_id |-> id, result |-> r.result,
                            unchanged |-> r.st = CallState,
                            quantity |-> quantity]
    /\ UNCHANGED <<busVars, posVars, omVars, taskVars>>

CallsNext ==
    \/ SubmitOrder
    \/ CancelOrder
    \/ ModifyOrder
    \/ PublishTrade
    \/ PublishOrderUpdate
    \/ Dispatch
    \/ RefusedCancel
    \/ RefusedModify

SpecCalls == Init /\ [][CallsNext]_vars

(***************************************************************************)
(* The fills of one order: an order is submitted and TRADE_UPDATE events   *)
(* for it are handed to OrderManager._handle_trade_update one after the    *)
(* other.                                                                  *)
(***************************************************************************)
MaxFills == 3
FilledOrderQtys == {6, 10}
PartQtys == {3, 7}
PartPrices == {99, 101}

\* submit_order of a LIMIT BUY for one of the quantities
FillSubmit ==
    /\ orders["o1"] = 0
    /\ \E qty \in FilledOrderQtys :
          LET o == Len(heap) + 1
              st == [EngState EXCEPT !.heap =
                        Append(@, NewOrder("o1", "X", "BUY", R(qty), R(100)))]
          IN  /\ EngSet(submit_order(st, o))
              /\ lastOp' = [kind |-> "submit", order_id |-> "o1", ref |-> o,
                            result |-> TRUE]
    /\ UNCHANGED calls

\* _handle_trade_update is called with a TRADE_UPDATE event of the order
FillTrade ==
    /\ orders["o1"] # 0
    /\ Len(trades["o1"]) < MaxFills
    /\ \E qty \in PartQtys, px \in PartPrices :
          LET trade == [order_id |-> "o1", instrument_id |-> "X",
                        side |-> "BUY", quantity |-> R(qty), price |-> R(px)]
              e == Event("TRADE_UPDATE", trade, "exchange", NoSeq, 1)
          IN  /\ EngSet(om_handle_trade_update(EngState, e))
              /\ lastOp' = [kind |-> "fill", order_id |-> "o1",
                            ref |-> orders["o1"], trade |-> trade]
    /\ UNCHANGED calls

FillsNext ==
    \/ FillSubmit
    \/ FillTrade

SpecFills == Init /\ [][FillsNext]_vars

(***************************************************************************)
(* The engine driven by its clients and by the trades of the exchange      *)
(* only: orders are submitted, modified and cancelled, TRADE_UPDATE events *)
(* are published and the loop dispatches.                                  *)
(***************************************************************************)
ClientNext ==
    \/ SubmitOrder
    \/ CancelOrder
    \/ ModifyOrder
    \/ PublishTrade
    \/ Dispatch

SpecClient == Init /\ [][ClientNext]_vars

(***************************************************************************)
(* The engine of SpecClient with a producer that publishes an ORDER_UPDATE *)
(* event a second time while the first is still queued.                    *)
(***************************************************************************)
\* event_processor.publish(event) called again with a queued ORDER_UPDATE
PublishAgain ==
    /\ calls < MaxCalls
    /\ \E i \in 1..Len(event_queue) :
          LET e == event_queue[i].event
          IN  /\ e.event_type = "ORDER_UPDATE"
              /\ EngSet(eng_publish(EngState, e))
              /\ lastOp' = [kind |-> "again", event |-> e]
    /\ calls' = calls + 1

UpsertNext ==
    \/ SubmitOrder
    \/ CancelOrder
    \/ ModifyOrder
    \/ PublishTrade
    \/ PublishAgain
    \/ Dispatch

SpecUpsert == Init /\ [][UpsertNext]_vars

(***************************************************************************)
(* Claims about Position (checked under SpecPos)                           *)
(***************************************************************************)
(* SpecMark: the position manager between fills and market data.  The      *)
(* exchange side publishes fills of instrument X, a feed publishes market  *)
(* data of every shape for X and for Y, which is never traded.             *)
(***************************************************************************)
MaxMarks == 3
MarketKinds == {"trade_100", "quote_100_005", "bar_120", "book_120_005",
                "quote_no_ask", "book_no_bids", "info", "trade_100_Y"}

\* the MarketData object of each kind
MarketDataOf(kind) ==
    IF kind = "trade_100"
    THEN [instrument_id |-> "X", data_type |-> "TRADE",
          data |-> [price |-> R(100)]]
    ELSE IF kind = "quote_100_005"
    THEN [instrument_id |-> "X", data_type |-> "QUOTE",
          data |-> [bid |-> R(100), ask |-> Rat(10001, 100)]]
    ELSE IF kind = "bar_120"
    THEN [instrument_id |-> "X", data_type |-> "BAR",
          data |-> [close |-> R(120)]]
    ELSE IF kind = "book_120_005"
    THEN [instrument_id |-> "X", data_type |-> "ORDERBOOK",
          data |-> [bids |-> <<[price |-> R(120)]>>,
                    asks |-> <<[price |-> Rat(12001, 100)]>>]]
    ELSE IF kind = "quote_no_ask"
    THEN [instrument_id |-> "X", data_type |-> "QUOTE",
          data |-> [bid |-> R(130)]]
    ELSE IF kind = "book_no_bids"
    THEN [instrument_id |-> "X", data_type |-> "ORDERBOOK",
          data |-> [bids |-> << >>, asks |-> <<[price |-> R(130)]>>]]
    ELSE IF kind = "info"
    THEN [instrument_id |-> "X", data_type |-> "INSTRUMENT_INFO",
          data |-> [tick_size |-> R(1)]]
    ELSE [instrument_id |-> "Y", data_type |-> "TRADE",
          data |-> [price |-> R(100)]]

\* TradingEngine.process_market_data(market_data): a MARKET_DATA event
\* carrying the object is published
ProcessMarketData ==
    /\ calls < MaxMarks
    /\ \E kind \in MarketKinds :
          LET market_data == MarketDataOf(kind)
          IN  /\ EngSet(eng_publish(EngState,
                     Event("MARKET_DATA", market_data, "feed", NoSeq, 1)))
              /\ lastOp' = [kind |-> "market", market |-> kind]
    /\ calls' = calls + 1

\* a TRADE_UPDATE event carrying a Trade of one unit of X at 100 is published;
\* its order is not one the order manager holds, which keeps the trade and
\* leaves the rest to the position manager
MarkTrade ==
    /\ calls < MaxMarks
    /\ \E side \in Sides :
          LET trade == [order_id |-> "o1", instrument_id |-> "X",
                        side |-> side, quantity |-> R(1), price |-> R(100)]
          IN  /\ EngSet(eng_publish(EngState,
                     Event("TRADE_UPDATE", trade, "exchange", NoSeq, 1)))
              /\ lastOp' = [kind |-> "trade", order_id |-> "o1", ref |-> 0,
                            result |-> TRUE]
    /\ calls' = calls + 1

MarkNext ==
    \/ ProcessMarketData
    \/ MarkTrade
    \/ Dispatch

SpecMark == Init /\ [][MarkNext]_vars

(***************************************************************************)
(* SpecWindow: an EventProcessor of the default size with a throttle level *)
(* for MARKET_DATA.  Producers publish market data and system events while *)
(* time passes and the loop dispatches.                                    *)
(***************************************************************************)
WindowLimit == 3
WindowPublishes == 5
DefaultQueueSize == 10000
WindowEvents ==
    {Event(ty, None, "S", NoSeq, 1) : ty \in {"MARKET_DATA", "SYSTEM_EVENT"}}

WinInit ==
    /\ PosConstructed
    /\ BusConstructed
    /\ EngConstructed
    /\ TasksConstructed
    /\ throttle_levels = [ty \in {"MARKET_DATA"} |-> WindowLimit]

\* the times of the publish calls of MARKET_DATA events made so far
PublishTimes == IF lastPublish.result = "none" THEN << >> ELSE lastPublish.times

\* a producer calls publish(e); the call, its time and what it returned are
\* noted
WinPublish ==
    /\ published < WindowPublishes
    /\ \E e \in WindowEvents :
          LET r == publish(e, event_queue, DefaultQueueSize,
                           dropped_events_count, throttle_levels,
                           throttle_counters, throttle_last_reset, now)
          IN  /\ event_queue' = r.queue
              /\ dropped_events_count' = r.dropped
              /\ throttle_counters' = r.counters
              /\ throttle_last_reset' = r.last_reset
              /\ lastPublish' = [result |-> r.result, event |-> e,
                                 queue_before |-> event_queue,
                                 queue_after |-> r.queue,
                                 dropped_before |-> dropped_events_count,
                                 dropped_after |-> r.dropped,
                                 counters_before |-> throttle_counters,
                                 counters_after |-> r.counters,
                                 times |-> IF e.event_type = "MARKET_DATA"
                                           THEN Append(PublishTimes, now)
                                           ELSE PublishTimes]
              /\ accepted' = IF e.event_type = "MARKET_DATA"
                                 /\ r.result # "False"
                              THEN Append(accepted, now)
                              ELSE accepted
    /\ published' = published + 1
    /\ UNCHANGED <<sequence_counters, pending_events, throttle_levels, now,
                   delivered, posVars, engVars, running, loop, te_running,
                   te_start, te_stop, periodic_check_task, heartbeat_task>>

WinNext ==
    \/ WinPublish
    \/ (BusDispatch /\ UNCHANGED <<posVars, engVars, taskVars>>)
    \/ (BusTick /\ UNCHANGED <<posVars, engVars, taskVars>>)

SpecWindow == WinInit /\ [][WinNext]_vars

(***************************************************************************)
(* SpecSeq: an EventProcessor of the default size without throttle;        *)
(* two sources publish sequenced events in any order, with repeats, and    *)
(* the loop dispatches.                                                    *)
(***************************************************************************)
SeqPublishes == 4
SeqEvents ==
    {Event("MARKET_DATA", None, src, seq, 1) :
        src \in BusSources, seq \in 0..MaxSeq}

SeqInit ==
    /\ PosConstructed
    /\ BusConstructed
    /\ EngConstructed
    /\ TasksConstructed
    /\ throttle_levels = EmptyMap

\* a source calls publish(e)
SeqPublish ==
    /\ published < SeqPublishes
    /\ \E e \in SeqEvents :
          LET r == publish(e, event_queue, DefaultQueueSize,
                           dropped_events_count, throttle_levels,
                           throttle_counters, throttle_last_reset, now)
          IN  /\ event_queue' = r.queue
              /\ dropped_events_count' = r.dropped
              /\ throttle_counters' = r.counters
              /\ throttle_last_reset' = r.last_reset
              /\ lastPublish' = [result |-> r.result, event |-> e]
    /\ published' = published + 1
    /\ UNCHANGED <<sequence_counters, pending_events, throttle_levels, now,
                   delivered, posVars, engVars, taskVars>>

SeqNext ==
    \/ SeqPublish
    \/ (BusDispatch /\ UNCHANGED <<posVars, engVars, taskVars>>)

SpecSeq == SeqInit /\ [][SeqNext]_vars

(***************************************************************************)
(* SpecRule: a PositionLimitRule on instrument X checked against the       *)
(* position that trades have built, for orders on X and on Y and for the   *)
(* periodic check.                                                         *)
(***************************************************************************)
RuleMax == 10
LimitRule == [instrument_id |-> "X", max_position |-> R(RuleMax)]
RuleOrders ==
    {[order_id |-> "o1", instrument_id |-> instr, side |-> side,
      quantity |-> R(qty)] :
        instr \in {"X", "Y"}, side \in Sides, qty \in TradeQtys}

\* rule.check(risk_manager, context) with an order in the context, or without
RuleCheck ==
    /\ posOps < MaxPosOps
    /\ \E order \in RuleOrders \cup {NoOrder} :
          posOp' = [kind |-> "check", order |-> order,
                    passed |-> PositionLimitRule_check(LimitRule, position,
                                                       order)]
    /\ posPre' = position
    /\ posOps' = posOps + 1
    /\ UNCHANGED <<position, busVars, engVars, taskVars>>

RuleNext == PosApplyTrade \/ RuleCheck

SpecRule == PosInit /\ [][RuleNext]_vars

(***************************************************************************)
(* SpecRules: rules, enabled or not, are added to a RiskManager and        *)
(* removed, and check_rules is called in contexts where each rule passes,  *)
(* fails or raises.                                                        *)
(***************************************************************************)
RuleNames == {"Position limit for X", "Drawdown limit of 5%",
              "Exposure limit for strategy s1"}

\* the index of the rule of that name in rs, 0 when there is none
IndexOfRule(rs, name) ==
    IF \E i \in 1..Len(rs) : rs[i].name = name
    THEN CHOOSE i \in 1..Len(rs) : rs[i].name = name
    ELSE 0

\* add_rule(rule): self.rules[rule.name] = rule; a name already in the dict
\* keeps its place
AddRule ==
    /\ \E name \in RuleNames, enabled \in BOOLEAN :
          LET i == IndexOfRule(rules, name)
              rule == [name |-> name, enabled |-> enabled]
          IN  /\ rules' = IF i = 0 THEN Append(rules, rule)
                          ELSE [rules EXCEPT ![i] = rule]
              /\ lastOp' = [kind |-> "add_rule", name |-> name]
    /\ UNCHANGED <<posVars, busVars, heap, orders, active_orders,
                   order_history, trades, positions, calls, taskVars>>

\* remove_rule(rule_name) of a rule that is there
RemoveRule ==
    /\ \E i \in 1..Len(rules) :
          /\ rules' = RemoveAt(rules, i)
          /\ lastOp' = [kind |-> "remove_rule", name |-> rules[i].name]
    /\ UNCHANGED <<posVars, busVars, heap, orders, active_orders,
                   order_history, trades, positions, calls, taskVars>>

\* await check_rules(context) in a context that makes each rule pass, fail
\* or raise
CheckRules ==
    /\ \E outcome \in [RuleNames -> Outcomes] :
          lastOp' = [kind |-> "check_rules", outcome |-> outcome,
                     result |-> check_rules(rules, outcome)]
    /\ UNCHANGED <<posVars, busVars, omVars, taskVars>>

RulesNext == AddRule \/ RemoveRule \/ CheckRules

SpecRules == Init /\ [][RulesNext]_vars

(***************************************************************************)
(* SpecBatch: the engine with clients that also cancel orders in batches.  *)
(***************************************************************************)
MaxBatch == 2
BatchLists ==
    UNION {[1..n -> OrderIds] : n \in 1..MaxBatch}

\* a client calls batch_cancel_orders with a list of order ids
BatchCancel ==
    /\ calls < MaxCalls
    /\ \E order_ids \in BatchLists :
          LET r == batch_cancel_orders(EngState, order_ids, EmptyMap, {})
          IN  /\ EngSet(r.st)
              /\ lastOp' = [kind |-> "batch", order_ids |-> order_ids,
                            results |-> r.results, issued |-> r.issued,
                            queue_before |-> event_queue]
    /\ calls' = calls + 1

BatchNext ==
    \/ SubmitOrder
    \/ PublishTrade
    \/ BatchCancel
    \/ Dispatch

SpecBatch == Init /\ [][BatchNext]_vars

(***************************************************************************)
(* SpecCap: the engine on an EventProcessor whose queue holds QueueCap     *)
(* entries (event_queue_size of the configuration).  Clients and the       *)
(* exchange side publish when put() has room; the handlers the dispatch    *)
(* loop calls publish their follow-up events from inside the loop.         *)
(***************************************************************************)

\* the engine's state as its coroutines see it, the queue built with
\* maxsize = QueueCap
CapState == [EngState EXCEPT !.bus.cap = QueueCap]

\* some coroutine is suspended in put(); in SpecCap it is the dispatch loop,
\* inside a handler
LoopInPut == \E i \in 1..Len(event_queue) : event_queue[i].waiting

\* a client submits an order; its ORDER_UPDATE goes into the queue
CapSubmit ==
    /\ calls < MaxCalls
    /\ \E id \in OrderIds, side \in Sides, qty \in OrderQtys :
          /\ orders[id] = 0
          /\ id = "o1" \/ orders["o1"] # 0
          /\ LET o == Len(heap) + 1
                 st == [CapState EXCEPT !.heap =
                           Append(@, NewOrder(id, "X", side, R(qty), R(100)))]
                 after == submit_order(st, o)
             IN  /\ ~after.blocked
                 /\ EngSet(after)
                 /\ lastOp' = [kind |-> "submit", order_id |-> id, ref |-> o,
                               result |-> TRUE]
    /\ calls' = calls + 1

\* the exchange side reports a fill of a known order
CapPublishTrade ==
    /\ calls < MaxCalls
    /\ \E id \in OrderIds, qty \in FillQtys :
          /\ orders[id] # 0
          /\ LET order == heap[orders[id]]
                 trade == [order_id |-> id,
                           instrument_id |-> order.instrument_id,
                           side |-> order.side, quantity |-> R(qty),
                           price |-> R(100)]
                 after == eng_publish(CapState,
                              Event("TRADE_UPDATE", trade, "exchange", NoSeq, 1))
             IN  /\ ~after.blocked
                 /\ EngSet(after)
                 /\ lastOp' = [kind |-> "trade", order_id |-> id,
                               ref |-> orders[id], result |-> TRUE]
    /\ calls' = calls + 1

\* one round of EventProcessor.event_loop: get() the least entry and await
\* _process_event; the loop takes its next entry when the handlers have
\* returned
CapDispatch ==
    /\ event_queue # << >>
    /\ ~LoopInPut
    /\ UNCHANGED calls
    /\ LET i == HeapMin(event_queue)
           e == event_queue[i].event
           st == [CapState EXCEPT !.bus.queue = RemoveAt(event_queue, i)]
           after == process_event(st, e)
       IN  /\ EngSet(after)
           /\ lastOp' = [kind |-> "dispatch", event |-> e,
                         reject |-> after.reject,
                         invoked |-> after.invoked]

CapNext == CapSubmit \/ CapPublishTrade \/ CapDispatch

SpecCap == Init /\ [][CapNext]_vars

(***************************************************************************)
(* SpecCash: the exchange side publishes trades of instrument X, BUY and   *)
(* SELL, of several sizes and prices; the order manager keeps each trade   *)
(* handled in its trade list and the position manager applies it to the    *)
(* position of X.                                                          *)
(***************************************************************************)
MaxTrades == 3
CashQtys == {5, 10}
CashPrices == {100, 110}

\* a TRADE_UPDATE event carrying a Trade of X is published; its order is not
\* one the order manager holds, which keeps the trade and leaves the rest to
\* the position manager
CashTrade ==
    /\ calls < MaxTrades
    /\ \E side \in Sides, qty \in CashQtys, px \in CashPrices :
          LET trade == [order_id |-> "o1", instrument_id |-> "X",
                        side |-> side, quantity |-> R(qty), price |-> R(px)]
          IN  /\ EngSet(eng_publish(EngState,
                     Event("TRADE_UPDATE", trade, "exchange", NoSeq, 1)))
              /\ lastOp' = [kind |-> "trade", order_id |-> "o1", ref |-> 0,
                            result |-> TRUE]
    /\ calls' = calls + 1

CashNext == CashTrade \/ Dispatch

SpecCash == Init /\ [][CashNext]_vars

(***************************************************************************)
\* the last operation was a trade, with its signed quantity
LastWasTrade == posOp.kind = "trade"
LastSignedQty == signed_quantity(posOp.side, posOp.qty)
LastOpposite ==
    \/ (RGt(posPre.quantity, R(0)) /\ RLt(LastSignedQty, R(0)))
    \/ (RLt(posPre.quantity, R(0)) /\ RGt(LastSignedQty, R(0)))
LastPartialClose ==
    LastWasTrade /\ LastOpposite /\ RLt(RAbs(LastSignedQty), RAbs(posPre.quantity))
LastFlip ==
    LastWasTrade /\ LastOpposite /\ RGt(RAbs(LastSignedQty), RAbs(posPre.quantity))

\* C7: a partial close (opposite sign, |signed_tq| < |q|) adds
\* |signed_tq| * (tp - avg) (long) or |signed_tq| * (avg - tp) (short) to
\* realized_pnl, sets quantity to q + signed_tq and leaves
\* average_entry_price unchanged.
C7_PartialClose ==
    LastPartialClose =>
        /\ position.realized_pnl =
              RAdd(posPre.realized_pnl,
                   IF RGt(posPre.quantity, R(0))
                   THEN RMul(RAbs(LastSignedQty),
                             RSub(posOp.price, posPre.average_entry_price))
                   ELSE RMul(RAbs(LastSignedQty),
                             RSub(posPre.average_entry_price, posOp.price)))
        /\ position.quantity = RAdd(posPre.quantity, LastSignedQty)
        /\ position.average_entry_price = posPre.average_entry_price

\* C8: after mark-to-market of a non-flat position at any price,
\* unrealized_pnl = quantity * (price - average_entry_price), quantity signed,
\* identically for long and short positions.
C8_MarkToMarket ==
    (posOp.kind = "mark" /\ position.quantity # R(0)) =>
        position.unrealized_pnl =
            RMul(position.quantity,
                 RSub(posOp.price, position.average_entry_price))

\* C9: a flip (opposite sign, |signed_tq| > |q|) realizes P&L on the entire
\* old position, leaves quantity q + signed_tq with the sign of the trade,
\* average_entry_price = trade price and unrealized_pnl = 0; from flat,
\* BUY 10 @ 100 then SELL 15 @ 110 gives realized 100, quantity -5, avg 110,
\* unrealized 0.
C9_Flip ==
    /\ LastFlip =>
        /\ position.realized_pnl =
              RAdd(posPre.realized_pnl,
                   IF RGt(posPre.quantity, R(0))
                   THEN RMul(RAbs(posPre.quantity),
                             RSub(posOp.price, posPre.average_entry_price))
                   ELSE RMul(RAbs(posPre.quantity),
                             RSub(posPre.average_entry_price, posOp.price)))
        /\ position.quantity = RAdd(posPre.quantity, LastSignedQty)
        /\ RGt(position.quantity, R(0)) = RGt(LastSignedQty, R(0))
        /\ position.quantity # R(0)
        /\ position.average_entry_price = posOp.price
        /\ position.unrealized_pnl = R(0)
    /\ (/\ posOps = 2
        /\ posPre = [NewPosition EXCEPT !.quantity = R(10),
                                        !.average_entry_price = R(100),
                                        !.current_price = R(100),
                                        !.position_value = R(1000)]
        /\ posOp = [kind |-> "trade", side |-> "SELL", qty |-> R(15),
                    price |-> R(110)])
       => /\ position.realized_pnl = R(100)
          /\ position.quantity = R(-5)
          /\ position.average_entry_price = R(110)
          /\ position.unrealized_pnl = R(0)

\* the scenario of C9 has happened: long 10 @ 100 from flat, then SELL 15 @ 110
C9_Witness ==
    /\ posOps = 2
    /\ LastFlip
    /\ posPre.quantity = R(10)
    /\ posPre.average_entry_price = R(100)
    /\ posPre.realized_pnl = R(0)
    /\ posOp.side = "SELL" /\ posOp.qty = R(15) /\ posOp.price = R(110)

(***************************************************************************)
(* Claims about the event bus (checked under SpecBus)                      *)
(***************************************************************************)
\* the sequence_ids of the sequenced events of source s handed to handlers
RECURSIVE SeqIdsOf(_, _)
SeqIdsOf(log, s) ==
    IF log = << >> THEN << >>
    ELSE IF Head(log).source = s /\ Head(log).sequence_id # NoSeq
         THEN <<Head(log).sequence_id>> \o SeqIdsOf(Tail(log), s)
         ELSE SeqIdsOf(Tail(log), s)

\* C1: for every source, the sequence_ids of the events delivered to handlers
\* are 0, 1, 2, ... in that order, whatever the arrival order on the bus (a
\* buffered successor is never delivered before the event that fills the gap).
C1_InOrderDelivery ==
    \A s \in BusSources :
        LET ids == SeqIdsOf(delivered, s)
        IN  \A i \in 1..Len(ids) : ids[i] = i - 1

\* C2: publish on a queue at capacity returns false, increments the
\* dropped-events counter by exactly 1 and leaves the queue unchanged; it
\* neither enqueues nor blocks.
C2_FullQueueDrops ==
    (lastPublish.result # "none" /\ lastPublish.at_capacity) =>
        /\ lastPublish.result = "False"
        /\ lastPublish.dropped_after = lastPublish.dropped_before + 1
        /\ lastPublish.queue_after = lastPublish.queue_before

(***************************************************************************)
(* Claims about the engine (checked under Spec)                            *)
(***************************************************************************)
\* the order the Order Manager holds under an id
Stored(id) == heap[orders[id]]
Held == {id \in OrderIds : orders[id] # 0}

\* the transitions of the order state machine
StateMachine ==
    {<<"PENDING_NEW", "NEW">>, <<"PENDING_NEW", "REJECTED">>,
     <<"NEW", "PARTIALLY_FILLED">>, <<"NEW", "FILLED">>,
     <<"NEW", "PENDING_CANCEL">>, <<"NEW", "EXPIRED">>,
     <<"PARTIALLY_FILLED", "PARTIALLY_FILLED">>,
     <<"PARTIALLY_FILLED", "FILLED">>,
     <<"PARTIALLY_FILLED", "PENDING_CANCEL">>,
     <<"PARTIALLY_FILLED", "EXPIRED">>,
     <<"PENDING_CANCEL", "CANCELLED">>, <<"PENDING_CANCEL", "FILLED">>,
     <<"PENDING_CANCEL", "PARTIALLY_FILLED">>}

\* C3: across consecutive snapshots of an order's history, every change of
\* status is a transition of the order state machine, and no transition
\* leaves FILLED, CANCELLED, REJECTED or EXPIRED.
C3_StateMachine ==
    \A id \in OrderIds :
        \A i \in 1..(Len(order_history[id]) - 1) :
            LET a == order_history[id][i].status
                b == order_history[id][i + 1].status
            IN  a # b => <<a, b>> \in StateMachine

\* C4: every held order in a terminal status is absent from the active set,
\* and every held order in a non-terminal status is present in it.
C4_TerminalAbsent ==
    \A id \in Held :
        /\ Stored(id).status \in TerminalStatuses => id \notin active_orders
        /\ Stored(id).status \notin TerminalStatuses => id \in active_orders

\* C5: an order_id is in the active set if and only if the stored order's
\* status is PENDING_NEW, NEW or PARTIALLY_FILLED, in every state, the states
\* between a status change and the dispatch of its ORDER_UPDATE included.
C5_ActiveIffStatus ==
    \A id \in OrderIds :
        id \in active_orders <=>
            (id \in Held /\ Stored(id).status \in ActiveStatuses)

\* C6: for every order the Order Manager holds,
\* 0 <= filled_quantity <= quantity.
C6_FilledWithinQuantity ==
    \A id \in Held :
        /\ RLe(R(0), Stored(id).filled_quantity)
        /\ RLe(Stored(id).filled_quantity, Stored(id).quantity)

\* the last step was a dispatch in which the Risk Manager rejected an order
LastRejected == lastOp.kind = "dispatch" /\ lastOp.reject # 0
\* the last step was the dispatch of the RISK_CHECK event of a rejection, the
\* second of the two events the Risk Manager publishes
LastRiskCheckDispatched ==
    lastOp.kind = "dispatch" /\ lastOp.event.event_type = "RISK_CHECK"

\* C10: when the Risk Manager fails a PENDING_NEW order, it sets the status
\* to REJECTED and publishes an ORDER_UPDATE for the order and a RISK_CHECK
\* event; once these two have been dispatched the order is REJECTED in the
\* Order Manager, has a REJECTED snapshot in its history and is not in the
\* active set.
C10_RiskRejection ==
    /\ LastRejected =>
          LET n == Len(event_queue)
          IN  /\ heap[lastOp.reject].status = "REJECTED"
              /\ n >= 2
              /\ event_queue[n - 1].event =
                    Event("ORDER_UPDATE", lastOp.reject, "risk_manager",
                          NoSeq, 1)
              /\ event_queue[n].event.event_type = "RISK_CHECK"
              /\ event_queue[n].event.data.order_id =
                    heap[lastOp.reject].order_id
    /\ LastRiskCheckDispatched =>
          LET id == lastOp.event.data.order_id
          IN  /\ id \in Held
              /\ Stored(id).status = "REJECTED"
              /\ \E i \in 1..Len(order_history[id]) :
                    order_history[id][i].status = "REJECTED"
              /\ id \notin active_orders

(***************************************************************************)
(* Claims about the throttle (checked under SpecThrottle)                  *)
(***************************************************************************)
\* the number of events let through in the one-second window starting at w
AcceptedIn(w) ==
    Cardinality({i \in 1..Len(accepted) :
                    w <= accepted[i] /\ accepted[i] < w + TicksPerSecond})

\* C11: with a throttle of k events per second for an event type, at most k
\* events of the type are let through by publish in any one-second window,
\* wherever the window starts, and a publish that finds k already let
\* through in the second before it is dropped.
C11_Throttle ==
    /\ \A w \in 0..MaxTime : AcceptedIn(w) <= ThrottleLimit
    /\ lastPublish.result \in {"True", "suspended"} =>
          AcceptedIn(now - TicksPerSecond + 1) <= ThrottleLimit

(***************************************************************************)
(* Claims about the dispatch loop (checked under SpecLoop, SpecLoopFair)   *)
(***************************************************************************)
LastDispatched == lastOp.kind = "dispatch"
\* the entries that were pending in the queue when the last get() returned
PendingBefore ==
    {j \in 1..Len(lastOp.queue_before) : ~lastOp.queue_before[j].waiting}

C13_HandlerExceptions ==
    LastDispatched =>
        /\ [k \in 1..Len(lastOp.invoked) |-> lastOp.invoked[k].handler]
              = LoopHandlers[lastOp.event.event_type]
        /\ loop = "head"

\* the first of three handlers raised, and this after an earlier dispatch in
\* which a handler had raised too
C13_Witness ==
    /\ LastDispatched
    /\ "h1" \in lastOp.raising
    /\ Len(lastOp.invoked) = 3
    /\ lastOp.after_raise

\* C14: once stop() has set the flag the loop eventually terminates, in
\* every execution.
C14_LoopTerminates == (loop # "not_started" /\ ~running) ~> (loop = "exited")

(***************************************************************************)
(* Claims about start and stop of the engine (checked under SpecLife)      *)
(***************************************************************************)
\* C15: after TradingEngine.stop() has completed, no periodic risk-check
\* task and no heartbeat task is running, or gets created.
C15_NoTaskAfterStop ==
    te_stop = "done" =>
        /\ periodic_check_task # "running"
        /\ heartbeat_task # "running"

\* C16: while the engine is running and the loop dispatches events, the
\* periodic risk task and the heartbeat task run beside the loop.
C16_TasksBesideLoop ==
    (te_running /\ lastOp.kind = "dispatch") =>
        /\ periodic_check_task = "running"
        /\ heartbeat_task = "running"

(***************************************************************************)
(* Claims about cancel_order and modify_order (checked under SpecCalls)    *)
(***************************************************************************)
LastRefused == lastOp.kind = "refused"
LastCancelled == lastOp.kind = "cancel"
LastModified == lastOp.kind = "modify"

\* C17: a cancel_order or modify_order call whose precondition fails (id
\* unknown, status not NEW or PARTIALLY_FILLED, or a new quantity below
\* filled_quantity on a partially filled order) returns false, changes
\* nothing in the order table, the active set or a history list, and
\* publishes no event: a call is accepted only when its precondition holds,
\* and a refused call leaves the state as it was.
C17_RefusedCalls ==
    /\ LastRefused => (~lastOp.result /\ lastOp.unchanged)
    /\ (LastCancelled \/ LastModified) =>
          /\ lastOp.ref # 0
          /\ lastOp.before.status \in {"NEW", "PARTIALLY_FILLED"}
    /\ LastModified =>
          ~ /\ lastOp.quantity # NoneF
            /\ lastOp.before.status = "PARTIALLY_FILLED"
            /\ RLt(lastOp.quantity, lastOp.before.filled_quantity)

\* a cancel of an order that is already terminal has been refused
C17_Witness ==
    /\ LastRefused
    /\ lastOp.op = "cancel"
    /\ lastOp.order_id \in Held
    /\ Stored(lastOp.order_id).status \in TerminalStatuses

\* C18: cancel_order returns true only if the order is known and its status
\* at the call is NEW or PARTIALLY_FILLED; when it returns true the status
\* has become PENDING_CANCEL, a PENDING_CANCEL snapshot has been appended to
\* the history and an ORDER_UPDATE carrying the order has been published.
C18_AcceptedCancel ==
    LastCancelled =>
        LET id == lastOp.order_id
            h == order_history[id]
            n == Len(event_queue)
        IN  /\ lastOp.result
            /\ lastOp.ref # 0
            /\ lastOp.before.status \in {"NEW", "PARTIALLY_FILLED"}
            /\ heap[lastOp.ref].status = "PENDING_CANCEL"
            /\ Len(h) > 0
            /\ h[Len(h)] = [lastOp.before EXCEPT !.status = "PENDING_CANCEL"]
            /\ n > 0
            /\ event_queue[n].event.event_type = "ORDER_UPDATE"
            /\ event_queue[n].event.data = lastOp.ref
            /\ orders[id] = lastOp.ref

\* a partially filled order has been cancelled
C18_Witness ==
    /\ LastCancelled
    /\ lastOp.before.status = "PARTIALLY_FILLED"
    /\ heap[lastOp.ref].status = "PENDING_CANCEL"

(***************************************************************************)
(* Claims about the fills of an order (checked under SpecFills)            *)
(***************************************************************************)
RECURSIVE SumQuantity(_)
SumQuantity(ts) ==
    IF ts = << >> THEN R(0)
    ELSE RAdd(ts[1].quantity, SumQuantity(Tail(ts)))

RECURSIVE SumNotional(_)
SumNotional(ts) ==
    IF ts = << >> THEN R(0)
    ELSE RAdd(RMul(ts[1].price, ts[1].quantity), SumNotional(Tail(ts)))

FillOf(qty, px) ==
    [order_id |-> "o1", instrument_id |-> "X", side |-> "BUY",
     quantity |-> R(qty), price |-> R(px)]

\* C19: after any sequence of TRADE_UPDATE events applied to a known order,
\* filled_quantity is the sum of the trade quantities and average_fill_price
\* times filled_quantity is the sum of price times quantity over the trades,
\* the first fill setting the average to the trade price; for a BUY 10 the
\* trades 3 @ 99 and 7 @ 101 give filled 3, average 99, PARTIALLY_FILLED and
\* then filled 10, average 100.4, FILLED.
C19_FillAverage ==
    orders["o1"] # 0 =>
        LET ts == trades["o1"]
            order == Stored("o1")
        IN  /\ order.filled_quantity = SumQuantity(ts)
            /\ ts = << >> => order.average_fill_price = NoneF
            /\ ts # << >> =>
                  /\ order.average_fill_price # NoneF
                  /\ RMul(order.average_fill_price, order.filled_quantity)
                        = SumNotional(ts)
            /\ Len(ts) = 1 => order.average_fill_price = ts[1].price
            /\ (order.quantity = R(10) /\ ts = <<FillOf(3, 99)>>) =>
                  /\ order.filled_quantity = R(3)
                  /\ order.average_fill_price = R(99)
                  /\ order.status = "PARTIALLY_FILLED"
            /\ (order.quantity = R(10)
                  /\ ts = <<FillOf(3, 99), FillOf(7, 101)>>) =>
                  /\ order.filled_quantity = R(10)
                  /\ order.average_fill_price = RDiv(R(1004), R(10))
                  /\ order.status = "FILLED"

\* the BUY 10 has been filled by 3 @ 99 and then 7 @ 101
C19_Witness ==
    /\ orders["o1"] # 0
    /\ Stored("o1").quantity = R(10)
    /\ trades["o1"] = <<FillOf(3, 99), FillOf(7, 101)>>
    /\ lastOp.kind = "fill"
    /\ Stored("o1").status = "FILLED"

\* C19, in the running engine: whenever TRADE_UPDATE events of a known order
\* have been handled, the stored order's filled_quantity is the sum of their
\* quantities and its average_fill_price their volume-weighted average.
C19_EngineFills ==
    \A id \in Held :
        LET ts == trades[id]
            order == Stored(id)
        IN  ts # << >> =>
               /\ order.filled_quantity = SumQuantity(ts)
               /\ order.average_fill_price # NoneF
               /\ RMul(order.average_fill_price, order.filled_quantity)
                     = SumNotional(ts)

(***************************************************************************)
(* Claims about the stored orders of the running engine (SpecClient)       *)
(***************************************************************************)
\* C20: in every reachable state and for every stored order, status = FILLED
\* if and only if filled_quantity equals quantity: no order is FILLED with an
\* unfilled remainder, and no order whose filled_quantity equals its quantity
\* keeps a status other than FILLED.
C20_FilledIffComplete ==
    \A id \in Held :
        Stored(id).status = "FILLED"
            <=> Stored(id).filled_quantity = Stored(id).quantity

(***************************************************************************)
(* Claims about the history lists of the orders (SpecClient)               *)
(***************************************************************************)
\* C21: for every order, filled_quantity is non-decreasing along its history
\* list: each snapshot appended has filled_quantity at least that of the
\* previous snapshot, under every interleaving of calls and queued events.
C21_FilledNonDecreasing ==
    \A id \in OrderIds :
        \A i \in 1..(Len(order_history[id]) - 1) :
            RLe(order_history[id][i].filled_quantity,
                order_history[id][i + 1].filled_quantity)

\* the entries a step has added at the end of the history of id
Appended(id) ==
    SubSeq(order_history'[id], Len(order_history[id]) + 1,
           Len(order_history'[id]))

\* the order's state at the time a step's append is made, for the order id
\* the step is about; << >> when the step appends nothing for id
StateAtAppend(id) ==
    LET op == lastOp'
    IN  IF op.kind \in {"submit", "cancel"} /\ op.order_id = id
        THEN <<heap'[op.ref]>>
        ELSE IF op.kind = "modify" /\ op.order_id = id
        THEN <<heap'[orders'[id]]>>
        ELSE IF op.kind = "dispatch" /\ op.event.event_type = "ORDER_UPDATE"
                /\ heap[op.event.data].order_id = id
        THEN <<heap[op.event.data]>>
        ELSE IF op.kind = "dispatch" /\ op.event.event_type = "TRADE_UPDATE"
                /\ op.event.data.order_id = id /\ orders[id] # 0
        THEN <<heap'[orders[id]]>>
        ELSE << >>

\* C22: an order's history is append-only and made of immutable snapshots:
\* each step only appends to the list, each appended entry equals the
\* order's state at the time of the append, and no later mutation of the
\* live order changes an entry already in the history.
C22_AppendOnlySnapshots ==
    [][\A id \in OrderIds :
          /\ Len(order_history'[id]) >= Len(order_history[id])
          /\ SubSeq(order_history'[id], 1, Len(order_history[id]))
                = order_history[id]
          /\ Appended(id) = StateAtAppend(id)]_vars

\* the live order has been filled, then rejected or cancelled or modified,
\* after snapshots of its earlier states were taken
C22_Witness ==
    /\ orders["o1"] # 0
    /\ Len(order_history["o1"]) >= 3
    /\ order_history["o1"][1].status = "PENDING_NEW"
    /\ order_history["o1"][1].filled_quantity = R(0)
    /\ \E i \in 2..Len(order_history["o1"]) :
          order_history["o1"][i].status = "PARTIALLY_FILLED"
    /\ Stored("o1").status = "PENDING_CANCEL"
    /\ lastOp.kind = "cancel"

(***************************************************************************)
(* Claims about ORDER_UPDATE events that carry the same Order (SpecUpsert) *)
(***************************************************************************)
\* the step dispatches an ORDER_UPDATE equal to the one dispatched just
\* before: the same Order from the same source
RepeatedDispatch ==
    /\ lastOp.kind = "dispatch"
    /\ lastOp.event.event_type = "ORDER_UPDATE"
    /\ lastOp'.kind = "dispatch"
    /\ lastOp'.event.event_type = "ORDER_UPDATE"
    /\ lastOp'.event.data = lastOp.event.data
    /\ lastOp'.event.source = lastOp.event.source
    /\ calls' = calls

\* C23: when the same Order is published in two ORDER_UPDATE events, the
\* active set and the terminal or non-terminal status of the order are after
\* the second dispatch what they were after the first, and the history of
\* the order grows by exactly one entry with the dispatch.
C23_RepeatedSnapshot ==
    [][RepeatedDispatch =>
          LET id == heap[lastOp.event.data].order_id
          IN  /\ active_orders' = active_orders
              /\ (heap'[orders'[id]].status \in TerminalStatuses)
                    = (heap[orders[id]].status \in TerminalStatuses)
              /\ Len(order_history'[id]) = Len(order_history[id]) + 1]_vars

(***************************************************************************)
(* Claims about modify_order in the running engine (SpecClient)            *)
(***************************************************************************)
\* C24: modify_order never leaves a stored order with quantity below its
\* filled_quantity: no call with a new quantity below filled_quantity is
\* accepted, and after an accepted call the order stored under the id has
\* the requested price and quantity, the status and filled_quantity it had,
\* and quantity >= filled_quantity.
C24_ModifyKeepsQuantity ==
    LastModified =>
        LET after == Stored(lastOp.order_id)
            before == lastOp.before
        IN  /\ lastOp.quantity # NoneF =>
                  ~RLt(lastOp.quantity, before.filled_quantity)
            /\ after.price = IF lastOp.price # NoneF THEN lastOp.price
                             ELSE before.price
            /\ after.quantity = IF lastOp.quantity # NoneF
                                THEN lastOp.quantity ELSE before.quantity
            /\ after.status = before.status
            /\ after.filled_quantity = before.filled_quantity
            /\ RLe(after.filled_quantity, after.quantity)

(***************************************************************************)
(* Claims about the positions of the running engine (Spec)                 *)
(***************************************************************************)
\* the sum of the signed quantities, + for BUY and - for SELL, of trades ts
RECURSIVE SignedSum(_)
SignedSum(ts) ==
    IF ts = << >> THEN R(0)
    ELSE RAdd(IF ts[1].side = "BUY" THEN ts[1].quantity
              ELSE RSub(R(0), ts[1].quantity),
              SignedSum(Tail(ts)))

\* all TRADE_UPDATE events handled so far are trades of instrument X
NetOfTrades == RAdd(SignedSum(trades["o1"]), SignedSum(trades["o2"]))

\* C25: for every position, after any sequence of applied trades (partial
\* closes, exact closes and flips included), the quantity of the position
\* is the sum of the signed quantities of the trades applied to it.
C25_QuantityIsSignedSum ==
    IF "X" \in DOMAIN positions
    THEN positions["X"].quantity = NetOfTrades
    ELSE trades["o1"] = << >> /\ trades["o2"] = << >>

\* a BUY 2 and then a SELL 4 have been applied: the position has flipped
C25_Witness ==
    /\ "X" \in DOMAIN positions
    /\ trades["o1"] # << >>
    /\ trades["o2"] # << >>
    /\ positions["X"].quantity = R(0 - 2)
    /\ lastOp.kind = "dispatch"
    /\ lastOp.event.event_type = "TRADE_UPDATE"
    /\ lastOp.event.data.side = "SELL"
    /\ lastOp.event.data.quantity = R(4)

(***************************************************************************)
(* Claims about the valuation of a Position (checked under SpecPos)        *)
(***************************************************************************)
\* C26: for every position in every reachable state, quantity = 0 if and
\* only if unrealized_pnl = 0 and position_value = 0.
C26_FlatIffNoValuation ==
    (position.quantity = R(0))
        <=> (position.unrealized_pnl = R(0) /\ position.position_value = R(0))

\* a position that had a valuation has been closed exactly
C26_Witness ==
    /\ posOp.kind = "trade"
    /\ posPre.quantity # R(0)
    /\ posPre.unrealized_pnl # R(0)
    /\ position.quantity = R(0)

\* the last operation was a trade on a flat position or of the position's sign
LastIncrease ==
    /\ LastWasTrade
    /\ \/ posPre.quantity = R(0)
       \/ (RGt(posPre.quantity, R(0)) /\ RGt(LastSignedQty, R(0)))
       \/ (RLt(posPre.quantity, R(0)) /\ RLt(LastSignedQty, R(0)))

\* long 10 @ 100 from flat, as BUY 10 @ 100 leaves it
Long10At100 ==
    [NewPosition EXCEPT !.quantity = R(10), !.average_entry_price = R(100),
                        !.current_price = R(100), !.position_value = R(1000)]

\* long 20 @ 110 marked at 120, as BUY 10 @ 120 leaves Long10At100
Long20At110 ==
    [NewPosition EXCEPT !.quantity = R(20), !.average_entry_price = R(110),
                        !.current_price = R(120), !.position_value = R(2400),
                        !.unrealized_pnl = R(200)]

\* C27: apply_trade on a flat position or with a trade of the position's
\* sign sets quantity to q + signed_tq and average_entry_price to
\* (|q| * avg + |signed_tq| * tp) / |new_q|; BUY 10 @ 100 then BUY 10 @ 120
\* gives quantity 20 and average 110, and a mark at 130 gives
\* unrealized_pnl 400.
C27_Increase ==
    /\ LastIncrease =>
          /\ position.quantity = RAdd(posPre.quantity, LastSignedQty)
          /\ position.average_entry_price =
                RDiv(RAdd(RMul(RAbs(posPre.quantity),
                               posPre.average_entry_price),
                          RMul(RAbs(LastSignedQty), posOp.price)),
                     RAbs(RAdd(posPre.quantity, LastSignedQty)))
    /\ (/\ posOps = 2
        /\ posPre = Long10At100
        /\ posOp = [kind |-> "trade", side |-> "BUY", qty |-> R(10),
                    price |-> R(120)])
       => position = Long20At110
    /\ (/\ posOps = 3
        /\ posPre = Long20At110
        /\ posOp = [kind |-> "mark", side |-> None, qty |-> R(0),
                    price |-> R(130)])
       => /\ position.quantity = R(20)
          /\ position.average_entry_price = R(110)
          /\ position.unrealized_pnl = R(400)

\* BUY 10 @ 100, BUY 10 @ 120 and a mark at 130 have happened
C27_Witness ==
    /\ posOps = 3
    /\ posPre = Long20At110
    /\ posOp.kind = "mark"
    /\ posOp.price = R(130)
    /\ position.current_price = R(130)

\* C28: for every position in every reachable state in which current_price
\* is defined (every operation on a position defines it; only a position no
\* operation has touched has none), position_value = quantity * current_price, after every trade
\* application and every mark-to-market.
C28_ValueIsQuantityTimesPrice ==
    posOps > 0 =>
        position.position_value
            = RMul(position.quantity, position.current_price)

\* a short position has been marked to market
C28_Witness ==
    /\ posOp.kind = "mark"
    /\ RLt(position.quantity, R(0))
    /\ position.current_price = posOp.price
    /\ posOps >= 2
    /\ posPre.position_value # position.position_value

(***************************************************************************)
(* Claims about the position manager (checked under SpecMark)              *)
(***************************************************************************)
\* the POSITION_UPDATE events in a queue
PositionUpdates(q) ==
    Cardinality({i \in 1..Len(q) : q[i].event.event_type = "POSITION_UPDATE"})

\* this step is a dispatch of an event of the given type
Dispatches(type) ==
    /\ calls' = calls
    /\ lastOp'.kind = "dispatch"
    /\ lastOp'.event.event_type = type

\* the change of unrealized_pnl of instrument instr over this step
PnlChange(instr) ==
    RAbs(RSub(positions'[instr].unrealized_pnl,
              positions[instr].unrealized_pnl))

MarketDataStep ==
    LET market_data == lastOp'.event.data
        instr == market_data.instrument_id
        price == market_price(market_data)
    IN  IF price = NoneF \/ instr \notin DOMAIN positions
        THEN /\ PositionUpdates(event_queue') = PositionUpdates(event_queue)
             /\ positions' = positions
        ELSE LET old == positions[instr].unrealized_pnl
                 change == PnlChange(instr)
                 significant ==
                     \/ RGt(change, Rat(1, 100))
                     \/ RGt(RDiv(change, RMax(RAbs(old), Rat(1, 100))),
                            Rat(1, 1000))
             IN  /\ positions'[instr].current_price = price
                 /\ PositionUpdates(event_queue')
                      = PositionUpdates(event_queue)
                        + (IF significant THEN 1 ELSE 0)

\* C29: every applied TRADE_UPDATE publishes a POSITION_UPDATE; a market-data
\* mark-to-market publishes one if and only if the change d of unrealized_pnl
\* has d > 0.01 or d / max(|old|, 0.01) > 0.001; market data without a price
\* or for an instrument with no position publishes nothing and creates no
\* position.
C29_PositionUpdates ==
    [][/\ Dispatches("TRADE_UPDATE") =>
            PositionUpdates(event_queue') = PositionUpdates(event_queue) + 1
       /\ Dispatches("MARKET_DATA") => MarketDataStep]_vars

\* after one fill at 100 the only mark, at 100.005, has just been dispatched:
\* the change 0.005 is below 0.01 and is published for its ratio to
\* max(|0|, 0.01)
C29_Witness ==
    /\ calls = 2
    /\ lastOp.kind = "dispatch"
    /\ lastOp.event.event_type = "MARKET_DATA"
    /\ "X" \in DOMAIN positions
    /\ positions["X"].unrealized_pnl = Rat(1, 200)
    /\ PositionUpdates(event_queue) >= 1

\* a mark that left unrealized_pnl at 20.005 has just been dispatched and
\* nothing is queued
C29_Unpublished ==
    /\ lastOp.kind = "dispatch"
    /\ lastOp.event.event_type = "MARKET_DATA"
    /\ "X" \in DOMAIN positions
    /\ positions["X"].unrealized_pnl = Rat(4001, 200)
    /\ event_queue = << >>

(***************************************************************************)
(* Claims about the mark-to-market (checked under SpecPos)                 *)
(***************************************************************************)
\* C30: a mark-to-market (Position.update_price) leaves realized_pnl,
\* quantity and average_entry_price as they were; only current_price,
\* position_value and unrealized_pnl change.
C30_MarkFrame ==
    posOp.kind = "mark" =>
        /\ position.realized_pnl = posPre.realized_pnl
        /\ position.quantity = posPre.quantity
        /\ position.average_entry_price = posPre.average_entry_price
        /\ position.current_price = posOp.price

\* a position that is open and has realized a gain or a loss has been marked
\* and its valuation has moved
C30_Witness ==
    /\ posOp.kind = "mark"
    /\ posPre.quantity # R(0)
    /\ posPre.realized_pnl # R(0)
    /\ position.unrealized_pnl # posPre.unrealized_pnl
    /\ position.position_value # posPre.position_value

(***************************************************************************)
(* Claims about one throttle window (checked under SpecWindow)             *)
(***************************************************************************)
\* the publish calls of MARKET_DATA made inside the window that the first of
\* them opened, and those of them that were let through
InFirstWindow(times) ==
    {i \in 1..Len(times) : times[i] - times[1] < TicksPerSecond}
MarketDataEver ==
    Cardinality({i \in 1..Len(event_queue) :
                    event_queue[i].event.event_type = "MARKET_DATA"})
    + Cardinality({i \in 1..Len(delivered) :
                    delivered[i].event_type = "MARKET_DATA"})
SystemEventsEver ==
    Cardinality({i \in 1..Len(event_queue) :
                    event_queue[i].event.event_type = "SYSTEM_EVENT"})
    + Cardinality({i \in 1..Len(delivered) :
                    delivered[i].event_type = "SYSTEM_EVENT"})
LastInFirstWindow ==
    /\ lastPublish.result # "none"
    /\ lastPublish.event.event_type = "MARKET_DATA"
    /\ Len(PublishTimes) \in InFirstWindow(PublishTimes)

\* C31: with a throttle of k per second on MARKET_DATA, of n MARKET_DATA
\* publishes inside one window exactly min(n, k) are enqueued (3 of 5 for
\* k = 3); each excess publish returns false, enqueues nothing, buffers
\* nothing for later and adds one to the dropped counter; events of an
\* unthrottled type are always enqueued and touch no counter.
C31_WindowThrottle ==
    /\ PublishTimes # << >> /\ InFirstWindow(PublishTimes) = DOMAIN PublishTimes =>
          LET n == Len(PublishTimes)
              k == IF n < WindowLimit THEN n ELSE WindowLimit
          IN  /\ MarketDataEver = k
              /\ dropped_events_count = n - k
    /\ SystemEventsEver = published - Len(PublishTimes)
    /\ LastInFirstWindow =>
          IF Len(PublishTimes) > WindowLimit
          THEN /\ lastPublish.result = "False"
               /\ lastPublish.queue_after = lastPublish.queue_before
               /\ lastPublish.dropped_after = lastPublish.dropped_before + 1
               /\ \A src \in DOMAIN pending_events :
                      pending_events[src] = EmptyMap
          ELSE /\ lastPublish.result = "True"
               /\ Len(lastPublish.queue_after)
                    = Len(lastPublish.queue_before) + 1
               /\ lastPublish.dropped_after = lastPublish.dropped_before
    /\ lastPublish.result # "none"
          /\ lastPublish.event.event_type = "SYSTEM_EVENT" =>
          /\ lastPublish.result = "True"
          /\ Len(lastPublish.queue_after) = Len(lastPublish.queue_before) + 1
          /\ lastPublish.dropped_after = lastPublish.dropped_before
          /\ lastPublish.counters_after = lastPublish.counters_before

\* five MARKET_DATA publishes inside one window with the limit 3: three
\* events enqueued, two dropped, the last call refused
C31_Witness ==
    /\ Len(PublishTimes) = WindowLimit + 2
    /\ InFirstWindow(PublishTimes) = DOMAIN PublishTimes
    /\ MarketDataEver = WindowLimit
    /\ dropped_events_count = 2
    /\ lastPublish.result = "False"

(***************************************************************************)
(* Claims about sequenced events (checked under SpecSeq)                   *)
(***************************************************************************)
\* this step dequeues an event whose sequence_id is below the counter of its
\* source
StaleDequeued ==
    /\ published' = published
    /\ event_queue # << >>
    /\ LET e == event_queue[HeapMin(event_queue)].event
       IN  /\ e.sequence_id # NoSeq
           /\ e.sequence_id < sequence_counters[e.source]

\* no (source, sequence_id) pair occurs twice in a log of deliveries
NoPairTwice(log) ==
    \A i, j \in 1..Len(log) :
        (i < j /\ log[i].sequence_id # NoSeq) =>
            ~(log[i].source = log[j].source
              /\ log[i].sequence_id = log[j].sequence_id)

\* C32: a dequeued event whose sequence_id is below the next-expected counter
\* of its source is dropped: no handler sees it and neither the counters nor
\* the out-of-order buffers change; no (source, sequence_id) pair is ever
\* delivered twice.
C32_StaleDropped ==
    [][/\ StaleDequeued =>
            /\ delivered' = delivered
            /\ sequence_counters' = sequence_counters
            /\ pending_events' = pending_events
            /\ Len(event_queue') = Len(event_queue) - 1
       /\ NoPairTwice(delivered')]_vars

\* an event published a second time has been dequeued and dropped: every
\* event but one was delivered and nothing is queued or buffered
C32_Witness ==
    /\ published = Len(delivered) + 1
    /\ delivered # << >>
    /\ event_queue = << >>
    /\ \A src \in DOMAIN pending_events : pending_events[src] = EmptyMap

(***************************************************************************)
(* Claims about the order of the handlers (checked under Spec)             *)
(***************************************************************************)
\* this step is a round of the dispatch loop
DispatchStep == calls' = calls /\ lastOp'.kind = "dispatch"

\* C33: the handlers registered for the type of a dispatched event are
\* invoked one after the other in their registration order, each returning
\* before the next starts: for ORDER_UPDATE the order manager runs before
\* the risk manager (the order is stored and its snapshot taken before the
\* risk manager rejects it), for TRADE_UPDATE the order manager runs before
\* the position manager (its ORDER_UPDATE is queued before the
\* POSITION_UPDATE).
C33_RegistrationOrder ==
    [][DispatchStep =>
        LET e == lastOp'.event
            ty == e.event_type
            n == Len(event_queue')
        IN  /\ ty = "ORDER_UPDATE" =>
                 /\ lastOp'.invoked = <<"OrderManager._handle_order_update",
                                        "RiskManager._handle_order_update",
                                        "TradingEngine._handle_order_update">>
                 /\ lastOp'.reject # 0 =>
                       LET id == heap'[lastOp'.reject].order_id
                           h == order_history'[id]
                       IN  /\ orders'[id] = lastOp'.reject
                           /\ Len(h) = Len(order_history[id]) + 1
                           /\ h[Len(h)].status = "PENDING_NEW"
                           /\ heap'[lastOp'.reject].status = "REJECTED"
            /\ ty = "TRADE_UPDATE" =>
                 /\ lastOp'.invoked = <<"OrderManager._handle_trade_update",
                                        "PositionManager._handle_trade_update",
                                        "TradingEngine._handle_trade_update">>
                 /\ orders[e.data.order_id] # 0 =>
                       /\ n = Len(event_queue) + 1
                       /\ event_queue'[n - 1].event.event_type = "ORDER_UPDATE"
                       /\ event_queue'[n - 1].event.source = "order_manager"
                       /\ event_queue'[n].event.event_type = "POSITION_UPDATE"
                       /\ event_queue'[n].event.source = "position_manager"]_vars

\* an ORDER_UPDATE that the risk manager rejected has been dispatched
C33_Witness ==
    /\ lastOp.kind = "dispatch"
    /\ lastOp.event.event_type = "ORDER_UPDATE"
    /\ lastOp.reject # 0
    /\ Len(lastOp.invoked) = 3

\* a fill of a held order has been dispatched
C33_Fill ==
    /\ lastOp.kind = "dispatch"
    /\ lastOp.event.event_type = "TRADE_UPDATE"
    /\ Len(event_queue) >= 2

(***************************************************************************)
(* Claims about the exact close (checked under SpecPos)                    *)
(***************************************************************************)
\* the last operation was a trade of the size of the position against it
LastExactClose ==
    LastWasTrade /\ LastOpposite /\ RAbs(LastSignedQty) = RAbs(posPre.quantity)

\* C34: a trade that exactly closes the position realizes P&L on the whole
\* position, |q| * (tp - avg) if long and |q| * (avg - tp) if short, and
\* leaves quantity, average_entry_price, unrealized_pnl and position_value
\* at 0; in every reachable state a flat position has average_entry_price 0.
C34_ExactClose ==
    /\ LastExactClose =>
          /\ position.realized_pnl =
                RAdd(posPre.realized_pnl,
                     IF RGt(posPre.quantity, R(0))
                     THEN RMul(RAbs(posPre.quantity),
                               RSub(posOp.price, posPre.average_entry_price))
                     ELSE RMul(RAbs(posPre.quantity),
                               RSub(posPre.average_entry_price, posOp.price)))
          /\ position.quantity = R(0)
          /\ position.average_entry_price = R(0)
          /\ position.unrealized_pnl = R(0)
          /\ position.position_value = R(0)
    /\ position.quantity = R(0) => position.average_entry_price = R(0)

\* a short position with a valuation has been closed exactly, away from its
\* entry price
C34_Witness ==
    /\ LastExactClose
    /\ RLt(posPre.quantity, R(0))
    /\ posPre.unrealized_pnl # R(0)
    /\ position.realized_pnl # posPre.realized_pnl
    /\ position.quantity = R(0)

(***************************************************************************)
(* Claims about PositionLimitRule (checked under SpecRule)                 *)
(***************************************************************************)
LastChecked == posOp.kind = "check"

\* the size the position would have with the order filled
Prospective(q, order) ==
    IF order.side = "BUY" THEN RAbs(RAdd(q, order.quantity))
    ELSE RAbs(RSub(q, order.quantity))

\* C35: the rule passes any order on another instrument; an order on its
\* instrument fails exactly when |q + order.quantity| (BUY) or
\* |q - order.quantity| (SELL) exceeds max, so an order that brings an
\* over-limit position within the limit passes; with no order the check
\* fails exactly when |q| exceeds max.
C35_PositionLimit ==
    LastChecked =>
        LET order == posOp.order
            q == position.quantity
        IN  IF order = NoOrder
            THEN posOp.passed = ~RGt(RAbs(q), R(RuleMax))
            ELSE IF order.instrument_id # "X"
            THEN posOp.passed
            ELSE posOp.passed = ~RGt(Prospective(q, order), R(RuleMax))

\* an order on X that brings a position over the limit back within it has
\* been checked and passed
C35_Witness ==
    /\ LastChecked
    /\ posOp.order # NoOrder
    /\ posOp.order.instrument_id = "X"
    /\ RGt(RAbs(position.quantity), R(RuleMax))
    /\ ~RGt(Prospective(position.quantity, posOp.order), R(RuleMax))
    /\ posOp.passed

(***************************************************************************)
(* Claims about check_rules (checked under SpecRules)                      *)
(***************************************************************************)
\* the names of the enabled rules, in the order of the dict
RECURSIVE EnabledNames(_)
EnabledNames(rs) ==
    IF rs = << >> THEN << >>
    ELSE (IF Head(rs).enabled THEN <<Head(rs).name>> ELSE << >>)
            \o EnabledNames(Tail(rs))

\* the elements of sequence names that are in set S, in order
RECURSIVE Restrict(_, _)
Restrict(names, S) ==
    IF names = << >> THEN << >>
    ELSE (IF Head(names) \in S THEN <<Head(names)>> ELSE << >>)
            \o Restrict(Tail(names), S)

\* C36: check_rules calls the check of every enabled rule and of no disabled
\* one; a rule whose check raises counts as failed, with a message naming
\* it, and the rules after it are still checked; the result is passed if and
\* only if every enabled rule returned passed without raising.
C36_CheckRules ==
    lastOp.kind = "check_rules" =>
        LET enabled == EnabledNames(rules)
            bad == {name \in RuleNames : lastOp.outcome[name] # "passed"}
        IN  /\ lastOp.result.checked = enabled
            /\ lastOp.result.all_passed
                  = (\A k \in 1..Len(enabled) :
                        lastOp.outcome[enabled[k]] = "passed")
            /\ lastOp.result.messages = Restrict(enabled, bad)

\* the first enabled rule raised, a later one failed and a disabled rule
\* would have failed: two messages, both enabled rules checked
C36_Witness ==
    /\ lastOp.kind = "check_rules"
    /\ Len(rules) = 3
    /\ Len(lastOp.result.checked) = 2
    /\ lastOp.outcome[lastOp.result.checked[1]] = "raises"
    /\ lastOp.outcome[lastOp.result.checked[2]] = "failed"
    /\ \E i \in 1..3 : ~rules[i].enabled /\ lastOp.outcome[rules[i].name] = "failed"
    /\ ~lastOp.result.all_passed
    /\ Len(lastOp.result.messages) = 2

(***************************************************************************)
(* Claims about batch_cancel_orders (checked under SpecBatch)              *)
(***************************************************************************)
\* C37: the mapping batch_cancel_orders returns has, for every id of the
\* list, also one that occurs more than once, the value true if and only if
\* a cancel request was issued for that order during the call.
C37_BatchCancel ==
    lastOp.kind = "batch" =>
        /\ DOMAIN lastOp.results
             = {lastOp.order_ids[k] : k \in 1..Len(lastOp.order_ids)}
        /\ \A id \in DOMAIN lastOp.results :
               lastOp.results[id] = (id \in lastOp.issued)

(***************************************************************************)
(* Claims about the dispatch loop when the queue is at capacity            *)
(***************************************************************************)

\* the events put into the queue and not yet taken out of it
Accepted == {i \in 1..Len(event_queue) : ~event_queue[i].waiting}

\* C38: the dispatch loop never deadlocks: while events accepted into the
\* queue wait to be dequeued, the loop is never suspended for good inside a
\* handler that publishes a follow-up event with the queue at capacity (only
\* the loop takes entries out, so a loop suspended in put() on a full queue
\* dequeues nothing from then on)
C38_NoDeadlock == Accepted # {} => ~LoopInPut

(***************************************************************************)
(* Claims about the active set in quiescent states                         *)
(***************************************************************************)

\* the queue is empty; every action is a whole handler or a whole Order
\* Manager operation, so nothing is in progress in a state
Quiescent == event_queue = << >>

\* C39: with no throttle for ORDER_UPDATE, in every quiescent state the
\* active set is exactly the set of order_ids whose stored order has status
\* PENDING_NEW, NEW or PARTIALLY_FILLED, whatever interleaving of submit,
\* cancel, modify, fills and risk rejections led there.
C39_QuiescentActive ==
    Quiescent =>
        active_orders =
            {id \in Held : Stored(id).status \in ActiveStatuses}

\* quiescent after a fill, a cancel request and a risk rejection: o1 is
\* partially filled and its cancel is pending, o2 was rejected, and neither
\* is in the active set
C39_Witness ==
    /\ Quiescent
    /\ Held = {"o1", "o2"}
    /\ Stored("o1").status = "PENDING_CANCEL"
    /\ RGt(Stored("o1").filled_quantity, R(0))
    /\ Stored("o2").status = "REJECTED"
    /\ active_orders = {}

(***************************************************************************)
(* Claims about the realized P&L of a round trip (SpecCash)                *)
(***************************************************************************)
\* the net cash flow of trades ts: the sum of price * quantity over the SELL
\* trades minus the sum of price * quantity over the BUY trades
RECURSIVE CashFlow(_)
CashFlow(ts) ==
    IF ts = << >> THEN R(0)
    ELSE LET notional == RMul(ts[1].price, ts[1].quantity)
         IN  RAdd(IF ts[1].side = "SELL" THEN notional
                  ELSE RSub(R(0), notional),
                  CashFlow(Tail(ts)))

\* C40: whenever a position that started flat is flat again after a
\* sequence of trades (closed in one or in several partial closes), its
\* realized_pnl is the net cash flow of those trades.
C40_RealizedIsCashFlow ==
    ("X" \in DOMAIN positions /\ positions["X"].quantity = R(0)) =>
        positions["X"].realized_pnl = CashFlow(trades["o1"])

\* C40, for the positions closed by one trade of the size of the position
\* (no partial close on the way)
C40_ClosedInOne ==
    ("X" \in DOMAIN positions /\ positions["X"].quantity = R(0)
        /\ Len(trades["o1"]) = 2) =>
        positions["X"].realized_pnl = CashFlow(trades["o1"])

====
